---- MODULE Spec2Model ----
(***************************************************************************)
(* Model of the JWT-verifying Cloudflare Worker of EndTimes                *)
(* (src/unnamed/part_003, lines 517-1099): the rate limiter, the JWKS      *)
(* cache, verifyJWT and handleApiRequest; and of the time calculation of   *)
(* the page (src/public/script.js).                                        *)
(*                                                                         *)
(* Time is Date.now() in milliseconds.  The clock takes its values in a    *)
(* finite set of instants around the multiples of one minute, so that the  *)
(* window length (60 s), twice the window length (120 s) and the JWKS TTL  *)
(* (300 s) are each hit exactly, one second early and one second late.     *)
(***************************************************************************)
EXTENDS Integers, Sequences, FiniteSets, TLC

VARIABLES
    now,                \* Date.now(), in ms
    rateLimitStorage,   \* Map key -> {count, windowStart}; NoRecord when absent
    rlLast,             \* history: key and result of the last checkRateLimit
                        \* call, and whether it swept; flip changes with
                        \* every call
    rlCalls,            \* history: per key, calls made since the window-opening call
    jwksCache,          \* Map cacheKey -> {data, timestamp}; NoEntry when absent
    pc,                 \* per task: where the task is suspended
    cached,             \* per task: getJWKS's local `cached`
    resp,               \* per task: the JWKS fetch response being read
    jwks,               \* per task: what getJWKS returned
    call,               \* history, per task: facts about its getJWKS call
    env,                \* the bindings of the deployment
    req,                \* per task: the request it handles; NoReq for none
    hdr,                \* per task: verifyJWT's decoded `header`
    jwtKey,             \* per task: verifyJWT's `key`
    user,               \* per task: handleApiRequest's `user`
    out,                \* per task: the response; NoOut until there is one
    log,                \* per task: the message of the error logged, Null if none
    trace,              \* history, per task: the stages of verifyJWT that ran
    calc,               \* the page: the last calculation and what it displays
    auth,               \* the page: the fields of window.authService, and
                        \* history: the fetches, clients and failures so far
    attempt,            \* the page, per caller: the _performInitialization it
                        \* started and where that is suspended
    caller,             \* the page, per caller: its call of the AuthService
    page                \* the page: its URL, form, panels and button, the runs
                        \* of handleCalculate, and the last searchMovie

rlVars == <<rateLimitStorage, rlLast, rlCalls>>

jwksVars == <<jwksCache, pc, cached, resp, jwks, call>>

reqVars == <<env, req, hdr, jwtKey, user, out, log, trace>>

authVars == <<auth, attempt, caller>>

frontVars == <<calc, authVars, page>>

vars == <<now, rateLimitStorage, rlLast, rlCalls, jwksCache, pc, cached, resp, jwks, call,
          env, req, hdr, jwtKey, user, out, log, trace, calc, auth, attempt, caller,
          page>>

Null == "null"

-----------------------------------------------------------------------------
(* Bounds of the model *)

\* the clock stops at MaxNowSec seconds
MaxNowSec == 121
\* at most MaxCalls checkRateLimit calls are made per key and window
MaxCalls == 102

\* at most MaxOtherCalls of them per window for the 'unknown' fallback client
MaxOtherCalls == 1

\* the clock stops at MaxTTLSec seconds when it runs in steps around the TTL
MaxTTLSec == 601

\* the clock of the Worker stops at MaxReqSec seconds
MaxReqSec == 300
\* requests that the limiter counts, served per client and window; the limit
\* itself is reached from a record that starts one call short of it
MaxSameWindow == 1

\* the instants the clock may show, in ms
Instants ==
    { 1000 * s : s \in { t \in 0..MaxNowSec : t = 0 \/ (t >= 59 /\ t % 60 \in {0, 1, 59}) } }

\* the instants around the multiples of the JWKS TTL (300 s), in ms
TTLInstants ==
    { 1000 * s : s \in { t \in 0..MaxTTLSec : t <= 1 \/ (t >= 299 /\ t % 300 \in {0, 1, 299}) } }

-----------------------------------------------------------------------------
(* Rate limiter: checkRateLimit, cleanupRateLimit *)

windowMs == 60000
maxRequests == 100

NoRecord == [count |-> 0, windowStart |-> -1]

\* the values of the CF-Connecting-IP and X-Forwarded-For request headers
IPHeaderValues == {Null, "", "10.0.0.1"}

\* a JavaScript string used as a condition: null and "" are falsy
Truthy(s) == s # Null /\ s # ""

\* clientIP = CF-Connecting-IP || X-Forwarded-For || 'unknown'
clientIP(cf, xff) == IF Truthy(cf) THEN cf ELSE IF Truthy(xff) THEN xff ELSE "unknown"

\* key = `auth_${clientIP}`
rlKey(cf, xff) == "auth_" \o clientIP(cf, xff)

RLKeys == { rlKey(cf, xff) : cf \in IPHeaderValues, xff \in IPHeaderValues }

\* faulty variant: the records older than one window are deleted
cleanupRateLimit_oneWindow(storage, t, w) ==
    [k \in DOMAIN storage |->
        IF storage[k] # NoRecord /\ (t - storage[k].windowStart) > w
        THEN NoRecord ELSE storage[k]]

\* faulty variant: every record is deleted
cleanupRateLimit_all(storage, t, w) == [k \in DOMAIN storage |-> NoRecord]

\* cleanupRateLimit(now, windowMs): delete the records older than two windows
cleanupRateLimit(storage, t, w) ==
    [k \in DOMAIN storage |->
        IF storage[k] # NoRecord /\ (t - storage[k].windowStart) > w * 2
        THEN NoRecord ELSE storage[k]]

\* faulty variant: the 101st call of a window is admitted (count > maxRequests)
checkRateLimit_offByOne(storage, key, t, sweep) ==
    LET record == storage[key]
        swept  == IF sweep THEN cleanupRateLimit(storage, t, windowMs) ELSE storage
    IN  IF record = NoRecord \/ (t - record.windowStart) > windowMs
        THEN [allowed |-> TRUE,
              storage |-> [swept EXCEPT ![key] = [count |-> 1, windowStart |-> t]]]
        ELSE IF record.count > maxRequests
        THEN [allowed |-> FALSE, storage |-> swept]
        ELSE [allowed |-> TRUE,
              storage |-> IF swept[key] = record
                          THEN [swept EXCEPT ![key].count = record.count + 1]
                          ELSE swept]

\* faulty variant: the window is over at age >= windowMs
checkRateLimit_geq(storage, key, t, sweep) ==
    LET record == storage[key]
        swept  == IF sweep THEN cleanupRateLimit(storage, t, windowMs) ELSE storage
    IN  IF record = NoRecord \/ (t - record.windowStart) >= windowMs
        THEN [allowed |-> TRUE,
              storage |-> [swept EXCEPT ![key] = [count |-> 1, windowStart |-> t]]]
        ELSE IF record.count >= maxRequests
        THEN [allowed |-> FALSE, storage |-> swept]
        ELSE [allowed |-> TRUE,
              storage |-> IF swept[key] = record
                          THEN [swept EXCEPT ![key].count = record.count + 1]
                          ELSE swept]

\* faulty variant: a denied call is counted all the same
checkRateLimit_countDenied(storage, key, t, sweep) ==
    LET record == storage[key]
        swept  == IF sweep THEN cleanupRateLimit(storage, t, windowMs) ELSE storage
    IN  IF record = NoRecord \/ (t - record.windowStart) > windowMs
        THEN [allowed |-> TRUE,
              storage |-> [swept EXCEPT ![key] = [count |-> 1, windowStart |-> t]]]
        ELSE [allowed |-> record.count < maxRequests,
              storage |-> IF swept[key] = record
                          THEN [swept EXCEPT ![key].count = record.count + 1]
                          ELSE swept]

\* faulty variant: an admission inside a window is not counted
checkRateLimit_lostUpdate(storage, key, t, sweep) ==
    LET record == storage[key]
        swept  == IF sweep THEN cleanupRateLimit(storage, t, windowMs) ELSE storage
    IN  IF record = NoRecord \/ (t - record.windowStart) > windowMs
        THEN [allowed |-> TRUE,
              storage |-> [swept EXCEPT ![key] = [count |-> 1, windowStart |-> t]]]
        ELSE IF record.count >= maxRequests
        THEN [allowed |-> FALSE, storage |-> swept]
        ELSE [allowed |-> TRUE, storage |-> swept]

\* checkRateLimit(request): the result and the storage after the call.
\* `record` is read before the sweep; record.count++ changes the object, which
\* is still in the map unless the sweep deleted it.
checkRateLimit(storage, key, t, sweep) ==
    LET record == storage[key]
        swept  == IF sweep THEN cleanupRateLimit(storage, t, windowMs) ELSE storage
    IN  IF record = NoRecord \/ (t - record.windowStart) > windowMs
        THEN [allowed |-> TRUE,
              storage |-> [swept EXCEPT ![key] = [count |-> 1, windowStart |-> t]]]
        ELSE IF record.count >= maxRequests
        THEN [allowed |-> FALSE, storage |-> swept]
        ELSE [allowed |-> TRUE,
              storage |-> IF swept[key] = record
                          THEN [swept EXCEPT ![key].count = record.count + 1]
                          ELSE swept]

-----------------------------------------------------------------------------
(* JWKS cache: getJWKS *)

\* the tasks (requests or direct callers) that can be in flight together
Tasks == {"t1", "t2"}

\* env.AUTH0_DOMAIN of the deployment
Auth0Domain == "tenant.auth0.com"

\* 5 * 60 * 1000
JWKS_TTL == 300000

\* cacheKey = `jwks_${domain}`
cacheKeyOf(domain) == "jwks_" \o domain

CacheKeys == { cacheKeyOf(Auth0Domain) }

\* the keys the identity provider publishes
Key1 == [kid |-> "kid1", mat |-> "m1"]
Key2 == [kid |-> "kid2", mat |-> "m2"]

\* bodies of a JWKS response: text that is no JSON, JSON without keys, keys that
\* is no array, an empty array, and two key sets
NotJson == [json |-> FALSE, keys |-> Null]
JwksBodies ==
    { NotJson,
      [json |-> TRUE, keys |-> Null],
      [json |-> TRUE, keys |-> "not-an-array"],
      [json |-> TRUE, keys |-> <<>>],
      [json |-> TRUE, keys |-> <<Key1>>],
      [json |-> TRUE, keys |-> <<Key2, Key1>>] }

NoEntry == [data |-> NotJson, timestamp |-> -1, fromOk |-> FALSE]

IsArray(v) == v # Null /\ v # "not-an-array"

\* faulty variant: the TTL is compared in seconds with an age in milliseconds
jwksFresh_seconds(entry, t) == entry # NoEntry /\ (t - entry.timestamp) < 5 * 60

\* cached && (Date.now() - cached.timestamp) < 5 * 60 * 1000
jwksFresh(entry, t) == entry # NoEntry /\ (t - entry.timestamp) < JWKS_TTL

\* !(!jwks.keys || !Array.isArray(jwks.keys) || jwks.keys.length === 0)
jwksStructureOk(body) ==
    body.keys # Null /\ IsArray(body.keys) /\ Len(body.keys) # 0

\* faulty variant: a response that is not ok is read like one that is
responseOk_any(r) == r \in {"ok", "notok"}

\* response.ok
responseOk(r) == r = "ok"

\* faulty variant: the stored timestamp is the moment the call started
jwksStore_startTime(cache, key, body, t, ok, c) ==
    [cache EXCEPT ![key] = [data |-> body, timestamp |-> c.startAt, fromOk |-> ok]]

\* this.jwksCache.set(cacheKey, {data: jwks, timestamp: Date.now()});
\* fromOk is history: whether the response the data came from was ok
jwksStore(cache, key, body, t, ok, c) ==
    [cache EXCEPT ![key] = [data |-> body, timestamp |-> t, fromOk |-> ok]]

\* faulty variant: a failed fetch always throws
jwksCatch_noFallback(entry) == [threw |-> TRUE, data |-> NotJson]

\* the catch block of getJWKS: the stale entry read at the start of the call, or
\* a throw
jwksCatch(entry) ==
    IF entry # NoEntry
    THEN [threw |-> FALSE, data |-> entry.data]
    ELSE [threw |-> TRUE, data |-> NotJson]

\* startAt: Date.now() at the call; seen: the cache entry at that moment;
\* fetched: a fetch was started; failed: why the fetch failed ("network",
\* "status", "body"), Null if it did not; wrote: the entry the call stored
NoCallJ == [startAt |-> -1, seen |-> NoEntry, fetched |-> FALSE, failed |-> Null,
            wrote |-> NoEntry]

InitJwksVars ==
    /\ jwksCache = [k \in CacheKeys |-> NoEntry]
    /\ pc = [t \in Tasks |-> "idle"]
    /\ cached = [t \in Tasks |-> NoEntry]
    /\ resp = [t \in Tasks |-> Null]
    /\ jwks = [t \in Tasks |-> NotJson]
    /\ call = [t \in Tasks |-> NoCallJ]

\* getJWKS(domain) up to its first suspension: the cache lookup and, when the
\* entry is missing or old, the start of the fetch
GetJWKSBegin(t, domain) ==
    LET entry == jwksCache[cacheKeyOf(domain)]
        c     == [NoCallJ EXCEPT !.startAt = now, !.seen = entry]
    IN  /\ cached' = [cached EXCEPT ![t] = entry]
        /\ IF jwksFresh(entry, now)
           THEN /\ pc' = [pc EXCEPT ![t] = "jwks_ret"]
                /\ jwks' = [jwks EXCEPT ![t] = entry.data]
                /\ call' = [call EXCEPT ![t] = c]
           ELSE /\ pc' = [pc EXCEPT ![t] = "fetch"]
                /\ jwks' = [jwks EXCEPT ![t] = NotJson]
                /\ call' = [call EXCEPT ![t] = [c EXCEPT !.fetched = TRUE]]
        /\ UNCHANGED <<jwksCache, resp>>

\* the catch block, run by task t
GetJWKSFail(t, why) ==
    LET res == jwksCatch(cached[t])
    IN  /\ pc' = [pc EXCEPT ![t] = IF res.threw THEN "jwks_throw" ELSE "jwks_ret"]
        /\ jwks' = [jwks EXCEPT ![t] = res.data]
        /\ call' = [call EXCEPT ![t].failed = why]
        /\ resp' = [resp EXCEPT ![t] = Null]
        /\ UNCHANGED <<jwksCache, cached>>

\* `await fetch(jwksUrl)` settles: a network error, or a response with a status
FetchSettles(t, outcome) ==
    /\ pc[t] = "fetch"
    /\ IF outcome # "error" /\ responseOk(outcome)
       THEN /\ pc' = [pc EXCEPT ![t] = "json"]
            /\ resp' = [resp EXCEPT ![t] = outcome]
            /\ UNCHANGED <<jwksCache, cached, jwks, call>>
       ELSE GetJWKSFail(t, IF outcome = "error" THEN "network" ELSE "status")
    /\ UNCHANGED <<now, rlVars, reqVars, frontVars>>

\* `await response.json()` settles with the body; the structure check, the
\* cache write and the return
JsonSettles(t, body) ==
    /\ pc[t] = "json"
    /\ IF body.json /\ jwksStructureOk(body)
       THEN /\ jwksCache' = jwksStore(jwksCache, cacheKeyOf(Auth0Domain), body, now,
                                      resp[t] = "ok", call[t])
            /\ pc' = [pc EXCEPT ![t] = "jwks_ret"]
            /\ jwks' = [jwks EXCEPT ![t] = body]
            /\ call' = [call EXCEPT ![t].wrote =
                            jwksCache'[cacheKeyOf(Auth0Domain)]]
            /\ resp' = [resp EXCEPT ![t] = Null]
            /\ UNCHANGED cached
       ELSE GetJWKSFail(t, "body")
    /\ UNCHANGED <<now, rlVars, reqVars, frontVars>>

-----------------------------------------------------------------------------
(* Tokens: split('.'), base64url + JSON.parse, signature check *)

\* A token is a sequence of symbols: "." is the delimiter, every other symbol
\* is a piece of base64url text.  JsonOf is what Buffer.from(.., 'base64url')
\* followed by JSON.parse makes of a segment; a segment outside its domain (the
\* empty segment, "x", a signature) is no JSON text and makes JSON.parse throw.
Dot == "."

ExpectedAudience == "https://api.end-times.example"
ExpectedIssuer == "https://" \o Auth0Domain \o "/"

\* exp of a payload that has none
NoExp == -1
\* an exp that is past once the clock shows more than 299 s, and one that is not
ExpSoon == 299
ExpLate == 100000

\* payload.aud: a string, an array of strings, or undefined
StrAud(s) == [array |-> FALSE, items |-> <<s>>]
ArrAud(items) == [array |-> TRUE, items |-> items]
NoAud == [array |-> FALSE, items |-> <<>>]

OtherAudience == "https://other.example"

Json(kid, sub, exp, aud, iss) ==
    [ok |-> TRUE, kid |-> kid, sub |-> sub, exp |-> exp, aud |-> aud, iss |-> iss]

DecodeFail == [ok |-> FALSE, kid |-> Null, sub |-> Null, exp |-> NoExp,
               aud |-> NoAud, iss |-> Null]

JsonOf ==
    [sym \in {"hK1", "hK2", "h0", "pOk", "pExp", "pAud", "pIss", "pZero", "pNoExp",
              "pAudIn", "pAudOut", "pAudNone", "pNoIss"} |->
        LET Payload(exp, aud, iss) == Json(Null, "auth0|u1", exp, aud, iss)
            good == StrAud(ExpectedAudience)
        IN  CASE sym = "hK1"  -> Json("kid1", Null, NoExp, NoAud, Null)
              [] sym = "hK2"  -> Json("kid2", Null, NoExp, NoAud, Null)
              [] sym = "h0"   -> Json(Null, Null, NoExp, NoAud, Null)
              [] sym = "pOk"  -> Payload(ExpLate, good, ExpectedIssuer)
              [] sym = "pExp" -> Payload(ExpSoon, good, ExpectedIssuer)
              [] sym = "pZero" -> Payload(0, good, ExpectedIssuer)
              [] sym = "pNoExp" -> Payload(NoExp, good, ExpectedIssuer)
              [] sym = "pAud" -> Payload(ExpLate, StrAud(OtherAudience), ExpectedIssuer)
              [] sym = "pAudIn" ->
                    Payload(ExpLate, ArrAud(<<OtherAudience, ExpectedAudience>>),
                            ExpectedIssuer)
              [] sym = "pAudOut" ->
                    Payload(ExpLate, ArrAud(<<OtherAudience>>), ExpectedIssuer)
              [] sym = "pAudNone" -> Payload(ExpLate, NoAud, ExpectedIssuer)
              [] sym = "pIss" -> Payload(ExpLate, good, "https://evil.auth0.com/")
              [] sym = "pNoIss" -> Payload(ExpLate, good, Null)]

\* the signature segments: the RSA signature over `${headerB64}.${payloadB64}` of
\* the token they stand in, made with the private key of m1 or of m2, and one
\* that is no signature of it
SignerOf == [sym \in {"sM1", "sM2"} |-> IF sym = "sM1" THEN "m1" ELSE "m2"]

\* index of the first "." of s, 0 if there is none
RECURSIVE FirstDot(_, _)
FirstDot(s, i) ==
    IF i > Len(s) THEN 0 ELSE IF s[i] = Dot THEN i ELSE FirstDot(s, i + 1)

\* token.split('.')
RECURSIVE Split(_)
Split(s) ==
    LET d == FirstDot(s, 1)
    IN  IF d = 0 THEN <<s>>
        ELSE <<SubSeq(s, 1, d - 1)>> \o Split(SubSeq(s, d + 1, Len(s)))

\* JSON.parse(this.safeBase64UrlDecode(segment))
DecodeJson(seg) ==
    IF Len(seg) = 1 /\ seg[1] \in DOMAIN JsonOf THEN JsonOf[seg[1]] ELSE DecodeFail

\* crypto.subtle.verify('RSASSA-PKCS1-v1_5', publicKey, signature, data)
SignatureValid(k, sigSeg) ==
    Len(sigSeg) = 1 /\ sigSeg[1] \in DOMAIN SignerOf /\ SignerOf[sigSeg[1]] = k.mat

\* jwks.keys.find(k => k.kid === header.kid); NoKey for undefined
NoKey == [kid |-> Null, mat |-> Null]

RECURSIVE FindKey(_, _)
FindKey(keys, kid) ==
    IF keys = <<>> THEN NoKey
    ELSE IF Head(keys).kid = kid THEN Head(keys) ELSE FindKey(Tail(keys), kid)

\* the segments tokens are made of, and the tokens requests carry
HeaderSegs == {<<"hK1">>, <<"hK2">>, <<"h0">>, <<"x">>}
PayloadSegs == {<<"pOk">>, <<"pExp">>, <<"pAud">>, <<"x">>}
SigSegs == {<<"sM1">>, <<"sBad">>}
\* the payloads that differ in one claim, carried under the header of key 1
\* with a signature of key 1
ClaimPayloadSegs == {<<"pZero">>, <<"pNoExp">>, <<"pAudIn">>, <<"pAudOut">>,
                     <<"pAudNone">>, <<"pIss">>, <<"pNoIss">>}

Join3(a, b, c) == a \o <<Dot>> \o b \o <<Dot>> \o c

Tokens ==
    { Join3(h, p, g) : h \in HeaderSegs, p \in PayloadSegs, g \in SigSegs }
    \cup { Join3(<<"hK1">>, p, <<"sM1">>) : p \in ClaimPayloadSegs }
    \cup { <<>>, <<"hK1">>, <<"hK1", Dot, "pOk">>, <<Dot, Dot>>,
           <<"hK1", Dot, "pOk", Dot, "sM1", Dot, "x">> }

-----------------------------------------------------------------------------
(* verifyJWT *)

\* faulty variant: a header without kid goes on to the key set
verifyHead_noKidCheck(token) ==
    LET parts  == Split(token)
        header == DecodeJson(parts[1])
    IN  IF Len(parts) # 3
        THEN [err |-> "Invalid JWT format", stages |-> <<"split">>, header |-> DecodeFail]
        ELSE IF ~header.ok
        THEN [err |-> "Invalid JWT header encoding", stages |-> <<"split", "header">>,
              header |-> DecodeFail]
        ELSE [err |-> Null, stages |-> <<"split", "header">>, header |-> header]

\* faulty variant: only a token with fewer than three segments is malformed
verifyHead_atLeastThree(token) ==
    LET parts  == Split(token)
        header == DecodeJson(parts[1])
    IN  IF Len(parts) < 3
        THEN [err |-> "Invalid JWT format", stages |-> <<"split">>, header |-> DecodeFail]
        ELSE IF ~header.ok
        THEN [err |-> "Invalid JWT header encoding", stages |-> <<"split", "header">>,
              header |-> DecodeFail]
        ELSE IF ~Truthy(header.kid)
        THEN [err |-> "No key ID in JWT header", stages |-> <<"split", "header">>,
              header |-> header]
        ELSE [err |-> Null, stages |-> <<"split", "header">>, header |-> header]

\* verifyJWT up to the call of getJWKS: the split, the header, the key id.
\* err is the message of the Error thrown, Null if none; stages are the stages run.
verifyHead(token) ==
    LET parts  == Split(token)
        header == DecodeJson(parts[1])
    IN  IF Len(parts) # 3
        THEN [err |-> "Invalid JWT format", stages |-> <<"split">>, header |-> DecodeFail]
        ELSE IF ~header.ok
        THEN [err |-> "Invalid JWT header encoding", stages |-> <<"split", "header">>,
              header |-> DecodeFail]
        ELSE IF ~Truthy(header.kid)
        THEN [err |-> "No key ID in JWT header", stages |-> <<"split", "header">>,
              header |-> header]
        ELSE [err |-> Null, stages |-> <<"split", "header">>, header |-> header]

\* faulty variant: of an array only the first element is compared
isValidAudience_first(aud, expected) ==
    IF aud.array THEN Len(aud.items) >= 1 /\ aud.items[1] = expected
    ELSE aud.items = <<expected>>

\* Array.isArray(tokenAudience) ? tokenAudience.includes(expectedAudience)
\*                              : tokenAudience === expectedAudience
isValidAudience(aud, expected) ==
    IF aud.array THEN \E i \in 1..Len(aud.items) : aud.items[i] = expected
    ELSE aud.items = <<expected>>

\* faulty variant: a payload without iss passes the issuer check
claimsError_optionalIss(payload, e, t) ==
    IF payload.exp # NoExp /\ payload.exp # 0 /\ payload.exp * 1000 < t
    THEN "Token expired"
    ELSE IF Truthy(e.AUTH0_AUDIENCE) /\ ~isValidAudience(payload.aud, e.AUTH0_AUDIENCE)
    THEN "Invalid audience"
    ELSE IF Truthy(payload.iss) /\ payload.iss # "https://" \o e.AUTH0_DOMAIN \o "/"
    THEN "Invalid issuer"
    ELSE Null

\* the checks on the decoded payload: exp, aud, iss.  `payload.exp &&` is false
\* for a payload without exp and for exp 0.
claimsError(payload, e, t) ==
    IF payload.exp # NoExp /\ payload.exp # 0 /\ payload.exp * 1000 < t
    THEN "Token expired"
    ELSE IF Truthy(e.AUTH0_AUDIENCE) /\ ~isValidAudience(payload.aud, e.AUTH0_AUDIENCE)
    THEN "Invalid audience"
    ELSE IF payload.iss # "https://" \o e.AUTH0_DOMAIN \o "/"
    THEN "Invalid issuer"
    ELSE Null

\* faulty variant: the payload is returned without its sub
verifyTail_dropSub(token, k, e, t) ==
    LET parts   == Split(token)
        payload == DecodeJson(parts[2])
    IN  IF ~SignatureValid(k, parts[3])
        THEN [err |-> "Invalid signature", stages |-> <<"verify">>, payload |-> DecodeFail]
        ELSE IF ~payload.ok
        THEN [err |-> "Invalid JWT payload encoding", stages |-> <<"verify", "payload">>,
              payload |-> DecodeFail]
        ELSE [err |-> claimsError(payload, e, t),
              stages |-> <<"verify", "payload", "claims">>,
              payload |-> [payload EXCEPT !.sub = Null]]

\* faulty variant: the payload is decoded before the signature is verified
verifyTail_decodeFirst(token, k, e, t) ==
    LET parts   == Split(token)
        payload == DecodeJson(parts[2])
    IN  IF ~payload.ok
        THEN [err |-> "Invalid JWT payload encoding", stages |-> <<"payload">>,
              payload |-> DecodeFail]
        ELSE IF ~SignatureValid(k, parts[3])
        THEN [err |-> "Invalid signature", stages |-> <<"payload", "verify">>,
              payload |-> DecodeFail]
        ELSE [err |-> claimsError(payload, e, t),
              stages |-> <<"payload", "verify", "claims">>, payload |-> payload]

\* verifyJWT from crypto.subtle.verify on: the signature, the payload, the claims
verifyTail(token, k, e, t) ==
    LET parts   == Split(token)
        payload == DecodeJson(parts[2])
    IN  IF ~SignatureValid(k, parts[3])
        THEN [err |-> "Invalid signature", stages |-> <<"verify">>, payload |-> DecodeFail]
        ELSE IF ~payload.ok
        THEN [err |-> "Invalid JWT payload encoding", stages |-> <<"verify", "payload">>,
              payload |-> DecodeFail]
        ELSE [err |-> claimsError(payload, e, t),
              stages |-> <<"verify", "payload", "claims">>, payload |-> payload]

-----------------------------------------------------------------------------
(* validateOrigin, generateCorsHeaders, sanitizeError *)

Env(domain, audience, tmdb, environment) ==
    [AUTH0_DOMAIN |-> domain, AUTH0_AUDIENCE |-> audience, TMDB_API_KEY |-> tmdb,
     ENVIRONMENT |-> environment, CUSTOM_DOMAIN |-> Null,
     AUTH0_CLIENT_ID |-> "spa-client-id"]

ProdEnv == Env(Auth0Domain, ExpectedAudience, "tmdb-key", "production")

Envs ==
    { ProdEnv,
      [Env(Auth0Domain, ExpectedAudience, "tmdb-key", "development")
          EXCEPT !.CUSTOM_DOMAIN = "staging-end-times.jacob-luszcz.workers.dev"],
      Env(Null, ExpectedAudience, "tmdb-key", "production"),
      Env(Auth0Domain, Null, "tmdb-key", "production"),
      Env(Auth0Domain, ExpectedAudience, Null, "production") }

\* the characters [\w-] matches
WordChars ==
    { "a", "b", "c", "d", "e", "f", "g", "h", "i", "j", "k", "l", "m",
      "n", "o", "p", "q", "r", "s", "t", "u", "v", "w", "x", "y", "z",
      "0", "1", "2", "3", "4", "5", "6", "7", "8", "9", "_", "-" }

\* the literal lit stands in s from position a on
HasAt(s, a, lit) ==
    /\ a + Len(lit) - 1 <= Len(s)
    /\ SubSeq(s, a, a + Len(lit) - 1) = lit

\* s[a..b] is a match of [\w-]+
IsRun(s, a, b) == a <= b /\ \A k \in a..b : s[k] \in WordChars

\* faulty variant: the pattern is not anchored at the end
MatchesPreview_unanchored(s) ==
    LET pre == <<"h", "t", "t", "p", "s", ":", "/", "/">>
        mid == <<"-", "e", "n", "d", "-", "t", "i", "m", "e", "s", ".">>
        suf == <<".", "w", "o", "r", "k", "e", "r", "s", ".", "d", "e", "v">>
    IN  /\ HasAt(s, 1, pre)
        /\ \E i \in 1..Len(s) :
              /\ IsRun(s, Len(pre) + 1, i)
              /\ HasAt(s, i + 1, mid)
              /\ \E j \in 1..Len(s) :
                    /\ IsRun(s, i + Len(mid) + 1, j)
                    /\ HasAt(s, j + 1, suf)

\* /^https:\/\/[\w-]+-end-times\.[\w-]+\.workers\.dev$/ .test(s), s the
\* sequence of the characters of the origin
MatchesPreview(s) ==
    LET pre == <<"h", "t", "t", "p", "s", ":", "/", "/">>
        mid == <<"-", "e", "n", "d", "-", "t", "i", "m", "e", "s", ".">>
        suf == <<".", "w", "o", "r", "k", "e", "r", "s", ".", "d", "e", "v">>
    IN  /\ HasAt(s, 1, pre)
        /\ \E i \in 1..Len(s) :
              /\ IsRun(s, Len(pre) + 1, i)
              /\ HasAt(s, i + 1, mid)
              /\ \E j \in 1..Len(s) :
                    /\ IsRun(s, i + Len(mid) + 1, j)
                    /\ HasAt(s, j + 1, suf)
                    /\ j + Len(suf) = Len(s)

\* the origins of the input beside the three every route is tried with
ProbeOrigins ==
    { "https://api.end-times.example",
      "https://end-times.jacob-luszcz.workers.dev",
      "https://pr-7-end-times.jacob-luszcz.workers.dev",
      "https://staging-end-times.jacob-luszcz.workers.dev",
      "http://pr-7-end-times.jacob-luszcz.workers.dev",
      "https://-end-times.jacob-luszcz.workers.dev",
      "https://pr-7-end-times.a.b.workers.dev",
      "https://pr-7-end-times.x.workers.dev.evil.com",
      "http://127.0.0.1:8787" }

Origins == {Null, "http://localhost:8787", "https://evil.example.com"}

\* the characters of an origin of the input
OriginText(o) ==
    CASE
         o = "http://localhost:8787" ->
            <<"h", "t", "t", "p", ":", "/", "/", "l", "o", "c", "a", "l", "h", "o", "s", "t", ":", "8", "7", "8", "7">>
      [] o = "http://127.0.0.1:8787" ->
            <<"h", "t", "t", "p", ":", "/", "/", "1", "2", "7", ".", "0", ".", "0", ".", "1", ":", "8", "7", "8", "7">>
      [] o = "https://evil.example.com" ->
            <<"h", "t", "t", "p", "s", ":", "/", "/", "e", "v", "i", "l", ".", "e", "x", "a", "m", "p", "l", "e", ".", "c", "o", "m">>
      [] o = "https://api.end-times.example" ->
            <<"h", "t", "t", "p", "s", ":", "/", "/", "a", "p", "i", ".", "e", "n", "d", "-", "t", "i", "m", "e", "s", ".", "e", "x", "a", "m", "p", "l", "e">>
      [] o = "https://end-times.jacob-luszcz.workers.dev" ->
            <<"h", "t", "t", "p", "s", ":", "/", "/", "e", "n", "d", "-", "t", "i", "m", "e", "s", ".", "j", "a", "c", "o", "b", "-", "l", "u", "s", "z", "c", "z", ".", "w", "o", "r", "k", "e", "r", "s", ".", "d", "e", "v">>
      [] o = "https://pr-7-end-times.jacob-luszcz.workers.dev" ->
            <<"h", "t", "t", "p", "s", ":", "/", "/", "p", "r", "-", "7", "-", "e", "n", "d", "-", "t", "i", "m", "e", "s", ".", "j", "a", "c", "o", "b", "-", "l", "u", "s", "z", "c", "z", ".", "w", "o", "r", "k", "e", "r", "s", ".", "d", "e", "v">>
      [] o = "https://staging-end-times.jacob-luszcz.workers.dev" ->
            <<"h", "t", "t", "p", "s", ":", "/", "/", "s", "t", "a", "g", "i", "n", "g", "-", "e", "n", "d", "-", "t", "i", "m", "e", "s", ".", "j", "a", "c", "o", "b", "-", "l", "u", "s", "z", "c", "z", ".", "w", "o", "r", "k", "e", "r", "s", ".", "d", "e", "v">>
      [] o = "http://pr-7-end-times.jacob-luszcz.workers.dev" ->
            <<"h", "t", "t", "p", ":", "/", "/", "p", "r", "-", "7", "-", "e", "n", "d", "-", "t", "i", "m", "e", "s", ".", "j", "a", "c", "o", "b", "-", "l", "u", "s", "z", "c", "z", ".", "w", "o", "r", "k", "e", "r", "s", ".", "d", "e", "v">>
      [] o = "https://-end-times.jacob-luszcz.workers.dev" ->
            <<"h", "t", "t", "p", "s", ":", "/", "/", "-", "e", "n", "d", "-", "t", "i", "m", "e", "s", ".", "j", "a", "c", "o", "b", "-", "l", "u", "s", "z", "c", "z", ".", "w", "o", "r", "k", "e", "r", "s", ".", "d", "e", "v">>
      [] o = "https://pr-7-end-times.a.b.workers.dev" ->
            <<"h", "t", "t", "p", "s", ":", "/", "/", "p", "r", "-", "7", "-", "e", "n", "d", "-", "t", "i", "m", "e", "s", ".", "a", ".", "b", ".", "w", "o", "r", "k", "e", "r", "s", ".", "d", "e", "v">>
      [] o = "https://pr-7-end-times.x.workers.dev.evil.com" ->
            <<"h", "t", "t", "p", "s", ":", "/", "/", "p", "r", "-", "7", "-", "e", "n", "d", "-", "t", "i", "m", "e", "s", ".", "x", ".", "w", "o", "r", "k", "e", "r", "s", ".", "d", "e", "v", ".", "e", "v", "i", "l", ".", "c", "o", "m">>

\* the origins of the input the pattern matches
PreviewOrigins ==
    { o \in (Origins \ {Null}) \cup ProbeOrigins : MatchesPreview(OriginText(o)) }

\* which entry of allowedOrigins answers for the origin: the strings are
\* tried before the patterns
matchKind(origin, e) ==
    LET exact ==
            { IF Truthy(e.AUTH0_AUDIENCE) THEN e.AUTH0_AUDIENCE
              ELSE "https://end-times.jacob-luszcz.workers.dev",
              "http://localhost:8787", "http://127.0.0.1:8787" }
            \cup (IF Truthy(e.CUSTOM_DOMAIN) THEN {"https://" \o e.CUSTOM_DOMAIN} ELSE {})
    IN  IF origin \in exact THEN "exact"
        ELSE IF origin \in PreviewOrigins THEN "pattern"
        ELSE "none"

validateOrigin(origin, e) ==
    IF ~Truthy(origin) THEN Null
    ELSE IF matchKind(origin, e) = "exact" THEN origin
    ELSE IF matchKind(origin, e) = "pattern" THEN origin
    ELSE Null

\* the CORS headers of a response: base says that Allow-Methods, Allow-Headers
\* and Max-Age are there
NoCors == [base |-> FALSE, allowOrigin |-> Null, allowCredentials |-> Null]

\* faulty variant: a wildcard stands where no origin was validated
generateCorsHeaders_wildcard(origin, e) ==
    LET validatedOrigin == validateOrigin(origin, e)
    IN  IF Truthy(validatedOrigin)
        THEN [base |-> TRUE, allowOrigin |-> validatedOrigin, allowCredentials |-> "true"]
        ELSE [base |-> TRUE, allowOrigin |-> "*", allowCredentials |-> Null]

\* faulty variant: the Origin of the request is echoed without validation
generateCorsHeaders_echo(origin, e) ==
    IF Truthy(origin)
    THEN [base |-> TRUE, allowOrigin |-> origin, allowCredentials |-> "true"]
    ELSE [base |-> TRUE, allowOrigin |-> Null, allowCredentials |-> Null]

generateCorsHeaders(origin, e) ==
    LET validatedOrigin == validateOrigin(origin, e)
    IN  IF Truthy(validatedOrigin)
        THEN [base |-> TRUE, allowOrigin |-> validatedOrigin, allowCredentials |-> "true"]
        ELSE [base |-> TRUE, allowOrigin |-> Null, allowCredentials |-> Null]

SanitizedMessage(errorType) ==
    CASE errorType = "authentication" -> "Authentication failed"
      [] errorType = "authorization"  -> "Access denied"
      [] errorType = "validation"     -> "Invalid input provided"
      [] errorType = "external_api"   -> "External service temporarily unavailable"
      [] errorType = "rate_limit"     -> "Too many requests"
      [] OTHER                        -> "Internal server error occurred"

\* faulty variant: the message of the error is returned in production too
sanitizeError_detailed(message, e, errorType) ==
    [error |-> errorType, message |-> message, debug |-> e.ENVIRONMENT = "development"]

\* the body sanitizeError returns
sanitizeError(message, e, errorType) ==
    IF e.ENVIRONMENT = "development"
    THEN [error |-> errorType, message |-> message, debug |-> TRUE]
    ELSE [error |-> errorType, message |-> SanitizedMessage(errorType), debug |-> FALSE]

-----------------------------------------------------------------------------
(* handleApiRequest and the route handlers *)

\* url.pathname, split at "/"
SearchPath == <<"api", "search">>
UserPath == <<"api", "user">>
ConfigPath == <<"api", "config", "auth0">>
Paths == { SearchPath, UserPath, ConfigPath, <<"api", "movie", "603">>,
           <<"api", "movie", "">>, <<"api", "unknown">> }

\* url.pathname.startsWith('/api/movie/')
IsMoviePath(path) == Len(path) >= 3 /\ path[1] = "api" /\ path[2] = "movie"

\* faulty variant: every route asks for authentication
isProtected_all(path) == TRUE

\* faulty variant: /api/movie/ is left out of the protected routes
isProtected_noMovie(path) == path = SearchPath \/ path = UserPath

\* the condition under which handleApiRequest asks for authentication
isProtected(path) == path = SearchPath \/ IsMoviePath(path) \/ path = UserPath

\* the Authorization header: none, another scheme, or 'Bearer ' and a token
NoAuth == [scheme |-> Null, token |-> <<>>]
AuthHeaders ==
    { NoAuth, [scheme |-> "Basic", token |-> <<"x">>] }
    \cup { [scheme |-> "Bearer", token |-> k] : k \in Tokens }

NoReq == [method |-> Null, origin |-> Null, path |-> <<>>, query |-> FALSE,
          cf |-> Null, xff |-> Null, auth |-> NoAuth]

\* a token with a good signature, for the requests that are answered before
\* their Authorization header is read
GoodToken == Join3(<<"hK1">>, <<"pOk">>, <<"sM1">>)

\* the routes on which every Authorization header of the input is tried
FullPaths == { SearchPath, UserPath }

\* the requests of the input: every Authorization header on a same-origin GET
\* for /api/search and /api/user; no header or a good token on the others;
\* the further origins on GET /api/config/auth0
Requests ==
    { r \in [method : {"GET", "OPTIONS"}, origin : Origins, path : Paths,
             query : BOOLEAN, cf : {"10.0.0.1"}, xff : {Null}, auth : AuthHeaders] :
        /\ r.path # SearchPath => ~r.query
        /\ \/ r.auth \in {NoAuth, [scheme |-> "Bearer", token |-> GoodToken]}
           \/ /\ r.method = "GET"
              /\ r.origin = Null
              /\ r.path \in FullPaths
              /\ r.path = SearchPath => r.query }
    \cup [method : {"GET"}, origin : ProbeOrigins, path : {ConfigPath},
          query : {FALSE}, cf : {"10.0.0.1"}, xff : {Null}, auth : {NoAuth}]

\* the body of a response that is not the Auth0 configuration
NoConfig == [domain |-> Null, clientId |-> Null, audience |-> Null]

NoOut == [status |-> 0, error |-> Null, message |-> Null, debug |-> FALSE,
          body |-> Null, cors |-> NoCors, retryAfter |-> Null, config |-> NoConfig]

Response(status, error, message, debug, body, cors) ==
    [status |-> status, error |-> error, message |-> message, debug |-> debug,
     body |-> body, cors |-> cors, retryAfter |-> Null, config |-> NoConfig]

\* the body handleAuth0Config returns
handleAuth0Config(e) ==
    [domain |-> e.AUTH0_DOMAIN, clientId |-> e.AUTH0_CLIENT_ID,
     audience |-> e.AUTH0_AUDIENCE]

\* faulty variant: the 401 carries the message of the error as it is
AuthFailure_raw(message, e, cors) ==
    Response(401, "authentication", message, FALSE, "error", cors)

\* faulty variant: the error reaches the outer catch block and becomes a 500
AuthFailure_generic(message, e, cors) ==
    LET b == sanitizeError(message, e, "generic")
    IN  Response(500, b.error, b.message, b.debug, "error", cors)

\* the 401 of the catch around requireAuth
AuthFailure(message, e, cors) ==
    LET b == sanitizeError(message, e, "authentication")
    IN  Response(401, b.error, b.message, b.debug, "error", cors)

InitReqVars ==
    /\ req = [t \in Tasks |-> NoReq]
    /\ hdr = [t \in Tasks |-> DecodeFail]
    /\ jwtKey = [t \in Tasks |-> NoKey]
    /\ user = [t \in Tasks |-> DecodeFail]
    /\ out = [t \in Tasks |-> NoOut]
    /\ log = [t \in Tasks |-> Null]
    /\ trace = [t \in Tasks |-> <<>>]

\* the task ends with a response
Respond(t, response, message) ==
    /\ pc' = [pc EXCEPT ![t] = "done"]
    /\ out' = [out EXCEPT ![t] = response]
    /\ log' = [log EXCEPT ![t] = message]

\* faulty variant: a request is not rejected for its Origin
EarlyResponse_noOriginCheck(r, e) ==
    LET cors == generateCorsHeaders(r.origin, e)
    IN  IF r.method = "OPTIONS"
        THEN Response(200, Null, Null, FALSE, Null, cors)
        ELSE IF ~Truthy(e.AUTH0_DOMAIN) \/ ~Truthy(e.AUTH0_AUDIENCE)
        THEN Response(500, "Authentication not configured", Null, FALSE, "error", cors)
        ELSE IF ~Truthy(e.TMDB_API_KEY)
        THEN Response(500, "TMDB API key not configured", Null, FALSE, "error", cors)
        ELSE NoOut

\* faulty variant: OPTIONS is handled like any other method
EarlyResponse_noPreflight(r, e) ==
    LET cors == generateCorsHeaders(r.origin, e)
    IN  IF Truthy(r.origin) /\ ~Truthy(cors.allowOrigin)
        THEN Response(403, "Origin not allowed",
                      "Cross-origin requests from this domain are not permitted",
                      FALSE, "error", NoCors)
        ELSE IF ~Truthy(e.AUTH0_DOMAIN) \/ ~Truthy(e.AUTH0_AUDIENCE)
        THEN Response(500, "Authentication not configured", Null, FALSE, "error", cors)
        ELSE IF ~Truthy(e.TMDB_API_KEY)
        THEN Response(500, "TMDB API key not configured", Null, FALSE, "error", cors)
        ELSE NoOut

\* faulty variant: the movie database key is not looked at
EarlyResponse_noTmdbCheck(r, e) ==
    LET cors == generateCorsHeaders(r.origin, e)
    IN  IF r.method = "OPTIONS"
        THEN Response(200, Null, Null, FALSE, Null, cors)
        ELSE IF Truthy(r.origin) /\ ~Truthy(cors.allowOrigin)
        THEN Response(403, "Origin not allowed",
                      "Cross-origin requests from this domain are not permitted",
                      FALSE, "error", NoCors)
        ELSE IF ~Truthy(e.AUTH0_DOMAIN) \/ ~Truthy(e.AUTH0_AUDIENCE)
        THEN Response(500, "Authentication not configured", Null, FALSE, "error", cors)
        ELSE NoOut

\* handleApiRequest answers before the protected-route block: the preflight,
\* the origin check, the configuration checks
EarlyResponse(r, e) ==
    LET cors == generateCorsHeaders(r.origin, e)
    IN  IF r.method = "OPTIONS"
        THEN Response(200, Null, Null, FALSE, Null, cors)
        ELSE IF Truthy(r.origin) /\ ~Truthy(cors.allowOrigin)
        THEN Response(403, "Origin not allowed",
                      "Cross-origin requests from this domain are not permitted",
                      FALSE, "error", NoCors)
        ELSE IF ~Truthy(e.AUTH0_DOMAIN) \/ ~Truthy(e.AUTH0_AUDIENCE)
        THEN Response(500, "Authentication not configured", Null, FALSE, "error", cors)
        ELSE IF ~Truthy(e.TMDB_API_KEY)
        THEN Response(500, "TMDB API key not configured", Null, FALSE, "error", cors)
        ELSE NoOut

\* the dispatch on url.pathname once `user` is settled; the handlers up to their
\* first suspension
Dispatch(t, r, u, cors) ==
    IF r.path = SearchPath
    THEN IF ~r.query
         THEN Respond(t, Response(400, "Query parameter is required", Null, FALSE,
                                  "error", cors), Null)
         ELSE /\ pc' = [pc EXCEPT ![t] = "upstream"]
              /\ UNCHANGED <<out, log>>
    ELSE IF IsMoviePath(r.path)
    THEN IF ~Truthy(r.path[3])
         THEN Respond(t, Response(400, "Movie ID is required", Null, FALSE,
                                  "error", cors), Null)
         ELSE /\ pc' = [pc EXCEPT ![t] = "upstream"]
              /\ UNCHANGED <<out, log>>
    ELSE IF r.path = UserPath
    THEN IF u.ok
         THEN Respond(t, Response(200, Null, Null, FALSE, "user", cors), Null)
         ELSE Respond(t, AuthFailure("Missing or invalid authorization header", env,
                                     cors),
                      "Missing or invalid authorization header")
    ELSE IF r.path = ConfigPath
    THEN Respond(t, [Response(200, Null, Null, FALSE, "config", cors)
                        EXCEPT !.config = handleAuth0Config(env)], Null)
    ELSE Respond(t, Response(404, "Unknown API endpoint", Null, FALSE, "error", cors),
                 Null)


\* the calls counted in the client's window, as far as they are bounded
ServedInWindow(k) ==
    IF rateLimitStorage[k] = NoRecord
          \/ (now - rateLimitStorage[k].windowStart) > windowMs
          \/ rateLimitStorage[k].count >= maxRequests - 2
    THEN 0 ELSE rateLimitStorage[k].count

\* one checkRateLimit call and its history
RateLimitCall(k, sweep) ==
    LET res    == checkRateLimit(rateLimitStorage, k, now, sweep)
        opened == res.storage[k] = [count |-> 1, windowStart |-> now]
                    /\ rateLimitStorage[k] # res.storage[k]
        nth    == IF opened \/ rlCalls[k] = 0 THEN 1 ELSE rlCalls[k] + 1
    IN  /\ rateLimitStorage' = res.storage
        /\ rlCalls' = [rlCalls EXCEPT ![k] = nth]
        /\ rlLast' = [key |-> k, allowed |-> res.allowed,
                      before |-> rateLimitStorage[k], flip |-> ~rlLast.flip,
                      swept |-> sweep]

\* the response is ready before verifyJWT has reached getJWKS
RespondEarly(t, response, message, stages) ==
    /\ Respond(t, response, message)
    /\ trace' = [trace EXCEPT ![t] = stages]
    /\ UNCHANGED <<jwksCache, cached, resp, jwks, call, hdr>>

\* faulty variant: the 429 carries no Retry-After
RateLimited_noRetryAfter(cors) ==
    Response(429, "Rate limit exceeded",
             "Too many authentication requests. Please try again later.",
             FALSE, "error", cors)

\* the 429 of handleApiRequest
RateLimited(cors) ==
    [Response(429, "Rate limit exceeded",
              "Too many authentication requests. Please try again later.",
              FALSE, "error", cors) EXCEPT !.retryAfter = "60"]

\* a request arrives: handleApiRequest, requireAuth and verifyJWT run up to the
\* first suspension, which is the fetch of getJWKS or its return
Receive(t, r, sweep) ==
    LET cors  == generateCorsHeaders(r.origin, env)
        early == EarlyResponse(r, env)
        k     == rlKey(r.cf, r.xff)
        rl    == checkRateLimit(rateLimitStorage, k, now, sweep)
        head  == verifyHead(r.auth.token)
        noHdr == "Missing or invalid authorization header"
    IN  /\ pc[t] = "idle"
        /\ req' = [req EXCEPT ![t] = r]
        /\ UNCHANGED <<now, env, frontVars, jwtKey>>
        /\ IF early # NoOut
           THEN /\ RespondEarly(t, early, Null, <<>>)
                /\ UNCHANGED <<rlVars, user>>
           ELSE IF ~isProtected(r.path)
           THEN /\ Dispatch(t, r, DecodeFail, cors)
                /\ UNCHANGED <<rlVars, user, trace, jwksCache, cached, resp, jwks,
                               call, hdr>>
           ELSE /\ ServedInWindow(k) < MaxSameWindow
                /\ rateLimitStorage' = rl.storage
                /\ UNCHANGED <<rlLast, rlCalls, user>>
                /\ IF ~rl.allowed
                   THEN RespondEarly(t, RateLimited(cors), Null, <<>>)
                   ELSE IF r.auth.scheme # "Bearer"
                   THEN RespondEarly(t, AuthFailure(noHdr, env, cors), noHdr, <<>>)
                   ELSE IF head.err # Null
                   THEN RespondEarly(t, AuthFailure(head.err, env, cors), head.err,
                                     head.stages)
                   ELSE /\ GetJWKSBegin(t, env.AUTH0_DOMAIN)
                        /\ hdr' = [hdr EXCEPT ![t] = head.header]
                        /\ trace' = [trace EXCEPT ![t] = head.stages \o <<"jwks">>]
                        /\ UNCHANGED <<out, log>>

\* getJWKS has returned or thrown: verifyJWT goes on to the key lookup and
\* starts crypto.subtle.importKey
ResumeAfterJWKS(t) ==
    LET r    == req[t]
        cors == generateCorsHeaders(r.origin, env)
        k    == FindKey(jwks[t].keys, hdr[t].kid)
        msg  == IF pc[t] = "jwks_throw" THEN "Failed to fetch JWKS"
                ELSE "No matching key found"
    IN  /\ pc[t] \in {"jwks_ret", "jwks_throw"}
        /\ r # NoReq
        /\ IF pc[t] = "jwks_throw"
           THEN /\ Respond(t, AuthFailure(msg, env, cors), msg)
                /\ UNCHANGED <<trace, jwtKey>>
           ELSE IF k = NoKey
           THEN /\ Respond(t, AuthFailure(msg, env, cors), msg)
                /\ trace' = [trace EXCEPT ![t] = @ \o <<"key">>]
                /\ UNCHANGED jwtKey
           ELSE /\ pc' = [pc EXCEPT ![t] = "import"]
                /\ jwtKey' = [jwtKey EXCEPT ![t] = k]
                /\ trace' = [trace EXCEPT ![t] = @ \o <<"key">>]
                /\ UNCHANGED <<out, log>>
        /\ UNCHANGED <<now, rlVars, jwksCache, cached, resp, jwks, call, env, frontVars, req,
                       hdr, user>>

\* crypto.subtle.importKey settles and crypto.subtle.verify starts
ImportSettles(t) ==
    /\ pc[t] = "import"
    /\ pc' = [pc EXCEPT ![t] = "verify"]
    /\ trace' = [trace EXCEPT ![t] = @ \o <<"import">>]
    /\ UNCHANGED <<now, rlVars, jwksCache, cached, resp, jwks, call, env, frontVars, req, hdr,
                   jwtKey, user, out, log>>

\* crypto.subtle.verify settles: the rest of verifyJWT, requireAuth's return and
\* the route handler up to its first suspension
VerifySettles(t) ==
    LET r    == req[t]
        cors == generateCorsHeaders(r.origin, env)
        tail == verifyTail(r.auth.token, jwtKey[t], env, now)
    IN  /\ pc[t] = "verify"
        /\ trace' = [trace EXCEPT ![t] = @ \o tail.stages]
        /\ IF tail.err # Null
           THEN /\ Respond(t, AuthFailure(tail.err, env, cors), tail.err)
                /\ UNCHANGED user
           ELSE /\ user' = [user EXCEPT ![t] = tail.payload]
                /\ Dispatch(t, r, tail.payload, cors)
        /\ UNCHANGED <<now, rlVars, jwksCache, cached, resp, jwks, call, env, frontVars, req,
                       hdr, jwtKey>>

\* the statuses the movie database answers with; NoStatus is a fetch that rejects
NoStatus == 0
UpstreamOutcomes == {NoStatus, 200, 304, 404, 499, 500, 503}

\* response.ok of the answer of the movie database
tmdbOk(status) == status >= 200 /\ status <= 299

\* `TMDB API error: ${response.status}`
tmdbErrorMessage(status) == "TMDB API error: " \o ToString(status)

\* faulty variant: the status of the movie database is handed on
proxyStatus_passThrough(status) == status

\* response.status >= 500 ? 503 : 400
proxyStatus(status) == IF status >= 500 THEN 503 ELSE 400

\* the fetch of handleMovieSearch or handleMovieDetails settles.  The handler's
\* promise is returned without await, so a rejection passes by both catch blocks
\* of handleApiRequest and the runtime answers for the Worker.
UpstreamSettles(t, outcome) ==
    LET cors == generateCorsHeaders(req[t].origin, env)
        b    == sanitizeError(tmdbErrorMessage(outcome), env, "external_api")
    IN  /\ pc[t] = "upstream"
        /\ IF outcome = NoStatus
           THEN Respond(t, Response(500, "Uncaught exception", Null, FALSE, "runtime",
                                    NoCors), "fetch failed")
           ELSE IF tmdbOk(outcome)
           THEN Respond(t, Response(200, Null, Null, FALSE, "tmdb", cors), Null)
           ELSE Respond(t, Response(proxyStatus(outcome), b.error, b.message, b.debug,
                                    "error", cors),
                        tmdbErrorMessage(outcome))
        /\ UNCHANGED <<now, rlVars, jwksCache, cached, resp, jwks, call, env, frontVars, req,
                       hdr, jwtKey, user, trace>>

\* the response has been sent; the task is free again
FinishRequest(t) ==
    /\ pc[t] = "done"
    /\ pc' = [pc EXCEPT ![t] = "idle"]
    /\ req' = [req EXCEPT ![t] = NoReq]
    /\ hdr' = [hdr EXCEPT ![t] = DecodeFail]
    /\ jwtKey' = [jwtKey EXCEPT ![t] = NoKey]
    /\ user' = [user EXCEPT ![t] = DecodeFail]
    /\ out' = [out EXCEPT ![t] = NoOut]
    /\ log' = [log EXCEPT ![t] = Null]
    /\ trace' = [trace EXCEPT ![t] = <<>>]
    /\ cached' = [cached EXCEPT ![t] = NoEntry]
    /\ jwks' = [jwks EXCEPT ![t] = NotJson]
    /\ call' = [call EXCEPT ![t] = NoCallJ]
    /\ UNCHANGED <<now, rlVars, jwksCache, resp, env, frontVars>>

-----------------------------------------------------------------------------
(* The page: calculateAndDisplayTimes, formatTime (src/public/script.js) *)

Digits == <<"0", "1", "2", "3", "4", "5", "6", "7", "8", "9">>

\* a number below 100 as the browser writes it in a time, with two digits
TwoDigit(n) == <<Digits[(n \div 10) + 1], Digits[(n % 10) + 1]>>

DigitValue(c) == CHOOSE d \in 0..9 : Digits[d + 1] = c

\* Number(s) and parseInt(s) for a string of decimal digits
RECURSIVE Number(_)
Number(s) ==
    IF s = <<>> THEN 0
    ELSE 10 * Number(SubSeq(s, 1, Len(s) - 1)) + DigitValue(s[Len(s)])

\* the first two parts of startTime.split(':')
splitTime(s) ==
    LET i == CHOOSE k \in 1..Len(s) : s[k] = ":" /\ \A j \in 1..(k - 1) : s[j] # ":"
    IN  <<SubSeq(s, 1, i - 1), SubSeq(s, i + 1, Len(s))>>

\* the options of the buffer select, as the strings of its values
VALID_BUFFER_VALUES ==
    { <<"0">>, <<"5">>, <<"1", "0">>, <<"1", "5">>, <<"2", "0">>, <<"2", "5">>,
      <<"3", "0">> }

\* the hours and minutes the start time is chosen from
StartHours == {0, 9, 12, 14, 23}
StartMinutes == {0, 15, 30, 59}

\* movie.runtime in minutes; NoRuntime is a movie without one (0, null or absent)
NoRuntime == 0
Runtimes == {NoRuntime, 1, 90, 120, 148, 200}

\* A Date is its getTime() in ms, counted from the local midnight of today; the
\* offset of local time from UTC is taken as constant over the two days.
\* new Date() followed by setHours(h, m, 0, 0)
setHours(h, m) == (h * 60 + m) * 60000

\* toLocaleTimeString([], {hour: '2-digit', minute: '2-digit', hour12: true})
formatTime(date) ==
    LET minuteOfDay == (date \div 60000) % 1440
        h           == minuteOfDay \div 60
        m           == minuteOfDay % 60
        h12         == IF h % 12 = 0 THEN 12 ELSE h % 12
    IN  TwoDigit(h12) \o <<":">> \o TwoDigit(m) \o <<" ">>
            \o (IF h < 12 THEN <<"A", "M">> ELSE <<"P", "M">>)

\* hours, minutes: the time chosen in the time input; startTime, buffer: the
\* values of the inputs; the rest is what calculateAndDisplayTimes computed and
\* displayResults or showError put on the page
NoCalc == [hours |-> 0, minutes |-> 0, startTime |-> <<>>, buffer |-> <<>>,
           runtime |-> NoRuntime, estStartDate |-> -1, estEndDate |-> -1,
           estStartTime |-> <<>>, estEndTime |-> <<>>, error |-> Null]

\* faulty variant: the runtime is added to the start time, not to the
\* estimated start
calculateTimes_noBuffer(runtime, startTime, bufferMinutes) ==
    LET parts        == splitTime(startTime)
        startDate    == setHours(Number(parts[1]), Number(parts[2]))
        estStartDate == startDate + bufferMinutes * 60000
        estEndDate   == startDate + runtime * 60000
    IN  IF runtime = NoRuntime
        THEN [NoCalc EXCEPT !.error = "Runtime information not available for this movie"]
        ELSE [NoCalc EXCEPT !.estStartDate = estStartDate, !.estEndDate = estEndDate,
                            !.estStartTime = formatTime(estStartDate),
                            !.estEndTime = formatTime(estEndDate)]

\* calculateAndDisplayTimes(movie, startTime, bufferMinutes) with displayResults,
\* or the error handleCalculate shows when it throws
calculateTimes(runtime, startTime, bufferMinutes) ==
    LET parts        == splitTime(startTime)
        startDate    == setHours(Number(parts[1]), Number(parts[2]))
        estStartDate == startDate + bufferMinutes * 60000
        estEndDate   == estStartDate + runtime * 60000
    IN  IF runtime = NoRuntime
        THEN [NoCalc EXCEPT !.error = "Runtime information not available for this movie"]
        ELSE [NoCalc EXCEPT !.estStartDate = estStartDate, !.estEndDate = estEndDate,
                            !.estStartTime = formatTime(estStartDate),
                            !.estEndTime = formatTime(estEndDate)]

\* handleCalculate from the reading of the inputs on, the movie found
calculateAndDisplayTimes(h, m, buffer, runtime) ==
    LET startTime == TwoDigit(h) \o <<":">> \o TwoDigit(m)
        result    == calculateTimes(runtime, startTime, Number(buffer))
    IN  /\ calc' = [result EXCEPT !.hours = h, !.minutes = m, !.startTime = startTime,
                                  !.buffer = buffer, !.runtime = runtime]
        /\ UNCHANGED <<now, rlVars, jwksVars, reqVars, authVars, page>>

-----------------------------------------------------------------------------
(* The page: AuthService (src/public/auth.js) *)

\* the failed initializations of a run
MaxAuthFailures == 2

\* the callers of the AuthService that can be waiting together
Callers == {"c1", "c2", "c3"}

\* the methods called: initialize(), and isAuthenticated() for the methods that
\* initialize when needed and then use the client (getUser, getAccessToken)
Ops == {"initialize", "isAuthenticated"}

\* the AuthService after its constructor, on a page whose URL carries `code=`
\* or `error=` (callback) or not; fetches, creates, failures and lastOutcome
\* are history
NewAuthService(callback) ==
    [auth0Client |-> Null, isInitialized |-> FALSE, config |-> Null,
     initializationPromise |-> Null, configPromise |-> Null,
     configStage |-> "none", callbackInUrl |-> callback,
     fetches |-> 0, creates |-> 0, failures |-> 0, lastOutcome |-> "none"]

NoCaller == [op |-> Null, at |-> "idle", on |-> Null, result |-> Null,
             usedInCallback |-> FALSE]

\* faulty variant: a running initialization is not looked for
initializeBranch_noPromise(a) ==
    IF a.isInitialized THEN "return" ELSE "start"

\* the entry of initialize(): return the client, await the initialization in
\* progress, or start one
initializeBranch(a) ==
    IF a.isInitialized THEN "return"
    ELSE IF a.initializationPromise # Null THEN "await"
    ELSE "start"

\* the entry of fetchAuth0Config()
fetchAuth0ConfigBranch(a) ==
    IF a.config # Null THEN "return"
    ELSE IF a.configPromise # Null THEN "await"
    ELSE "start"

\* this.initializationPromise = this._performInitialization() by caller o:
\* _performInitialization runs up to its first suspension, the fetch of the
\* configuration or, with the configuration there, createAuth0Client
StartInitialization(a, o) ==
    LET branch == fetchAuth0ConfigBranch(a)
        b      == [a EXCEPT !.initializationPromise = o]
    IN  IF branch = "return"
        THEN [stage |-> "create", auth |-> [b EXCEPT !.creates = @ + 1]]
        ELSE IF branch = "await"
        THEN [stage |-> "config", auth |-> b]
        ELSE [stage |-> "config",
              auth |-> [b EXCEPT !.configPromise = o, !.configStage = "fetch",
                                 !.fetches = @ + 1]]

\* an initialization is handling the redirect callback
CallbackRunning == \E o \in Callers : attempt[o] = "callback"

\* a call of initialize() or of a method that uses the client, up to its first
\* suspension
CallAuth(c, op) ==
    LET branch == initializeBranch(auth)
        start  == StartInitialization(auth, c)
    IN  /\ caller[c].at = "idle"
        /\ IF op # "initialize" /\ auth.isInitialized
           THEN /\ caller' = [caller EXCEPT ![c] =
                                [NoCaller EXCEPT !.op = op, !.at = "done",
                                                 !.result = "value",
                                                 !.usedInCallback = CallbackRunning]]
                /\ UNCHANGED <<auth, attempt>>
           ELSE IF branch = "return"
           THEN /\ caller' = [caller EXCEPT ![c] =
                                [NoCaller EXCEPT !.op = op, !.at = "done",
                                                 !.result = "client"]]
                /\ UNCHANGED <<auth, attempt>>
           ELSE IF branch = "await"
           THEN /\ caller' = [caller EXCEPT ![c] =
                                [NoCaller EXCEPT !.op = op, !.at = "waiting",
                                                 !.on = auth.initializationPromise]]
                /\ UNCHANGED <<auth, attempt>>
           ELSE /\ attempt[c] = "none"
                /\ caller' = [caller EXCEPT ![c] =
                                [NoCaller EXCEPT !.op = op, !.at = "waiting", !.on = c]]
                /\ attempt' = [attempt EXCEPT ![c] = start.stage]
                /\ auth' = start.auth
        /\ UNCHANGED <<now, rlVars, jwksVars, reqVars, calc, page>>

\* the callers after the initializations of the owners in S have settled: the
\* continuations of their awaits run before any other event
Settled(S, ok) ==
    [c \in Callers |->
        IF caller[c].at = "waiting" /\ caller[c].on \in S
        THEN [caller[c] EXCEPT
                !.at = "done", !.on = Null,
                !.result = IF ~ok THEN "error"
                           ELSE IF caller[c].op = "initialize" THEN "client"
                           ELSE "value"]
        ELSE caller[c]]

\* the initializations of the owners in S reject: the catch of initialize()
\* clears the promise and every awaiting caller gets the error
RejectAll(S, a) ==
    /\ attempt' = [o \in Callers |-> IF o \in S THEN "none" ELSE attempt[o]]
    /\ caller' = Settled(S, FALSE)
    /\ auth' = [a EXCEPT !.initializationPromise = Null,
                         !.failures = @ + Cardinality(S),
                         !.lastOutcome = "rejected"]

\* the initialization of owner o resolves with the client
Resolve(o, a) ==
    /\ attempt' = [attempt EXCEPT ![o] = "none"]
    /\ caller' = Settled({o}, TRUE)
    /\ auth' = [a EXCEPT !.lastOutcome = "resolved"]

\* the initializations that await the configuration
AwaitingConfig == { o \in Callers : attempt[o] = "config" }

\* fetch('/api/config/auth0') settles
ConfigFetchSettles(outcome) ==
    /\ auth.configStage = "fetch"
    /\ IF outcome = "ok"
       THEN /\ auth' = [auth EXCEPT !.configStage = "json"]
            /\ UNCHANGED <<attempt, caller>>
       ELSE /\ auth.failures < MaxAuthFailures
            /\ RejectAll(AwaitingConfig,
                         [auth EXCEPT !.configPromise = Null, !.configStage = "none"])
    /\ UNCHANGED <<now, rlVars, jwksVars, reqVars, calc, page>>

\* response.json() settles: the configuration is kept and createAuth0Client is
\* called, or the fetch of the configuration has failed
ConfigJsonSettles(ok) ==
    /\ auth.configStage = "json"
    /\ IF ok
       THEN /\ auth' = [auth EXCEPT !.config = "config", !.configStage = "none",
                                    !.creates = @ + Cardinality(AwaitingConfig)]
            /\ attempt' = [o \in Callers |->
                             IF attempt[o] = "config" THEN "create" ELSE attempt[o]]
            /\ UNCHANGED caller
       ELSE /\ auth.failures < MaxAuthFailures
            /\ RejectAll(AwaitingConfig,
                         [auth EXCEPT !.configPromise = Null, !.configStage = "none"])
    /\ UNCHANGED <<now, rlVars, jwksVars, reqVars, calc, page>>

\* auth0.createAuth0Client settles: the client is kept, isInitialized is set,
\* and handleCallback is started when the URL asks for it
CreateSettles(o, ok) ==
    LET a == [auth EXCEPT !.auth0Client = "client", !.isInitialized = TRUE]
    IN  /\ attempt[o] = "create"
        /\ IF ~ok
           THEN /\ auth.failures < MaxAuthFailures
                /\ RejectAll({o}, auth)
           ELSE IF auth.callbackInUrl
           THEN /\ auth' = a
                /\ attempt' = [attempt EXCEPT ![o] = "callback"]
                /\ UNCHANGED caller
           ELSE Resolve(o, a)
        /\ UNCHANGED <<now, rlVars, jwksVars, reqVars, calc, page>>

\* handleRedirectCallback settles
CallbackSettles(o, ok) ==
    /\ attempt[o] = "callback"
    /\ IF ok
       THEN Resolve(o, [auth EXCEPT !.callbackInUrl = FALSE])
       ELSE /\ auth.failures < MaxAuthFailures
            /\ RejectAll({o}, auth)
    /\ UNCHANGED <<now, rlVars, jwksVars, reqVars, calc, page>>

\* the caller has its answer
ReturnAuth(c) ==
    /\ caller[c].at = "done"
    /\ caller' = [caller EXCEPT ![c] = NoCaller]
    /\ UNCHANGED <<now, rlVars, jwksVars, reqVars, calc, page, auth, attempt>>

-----------------------------------------------------------------------------
(* The page: the form, the URL parameters and handleCalculate
   (src/public/script.js) *)

IsDigit(c) == \E d \in 1..10 : Digits[d] = c

\* /^([0-1]?[0-9]|2[0-3]):[0-5][0-9]$/.test(s)
timeRegexTest(s) ==
    \E i \in 1..Len(s) :
        LET h == SubSeq(s, 1, i - 1)
            m == SubSeq(s, i + 1, Len(s))
        IN  /\ s[i] = ":"
            /\ \/ Len(h) = 1 /\ IsDigit(h[1])
               \/ Len(h) = 2 /\ h[1] \in {"0", "1"} /\ IsDigit(h[2])
               \/ Len(h) = 2 /\ h[1] = "2" /\ h[2] \in {"0", "1", "2", "3"}
            /\ Len(m) = 2
            /\ m[1] \in {"0", "1", "2", "3", "4", "5"}
            /\ IsDigit(m[2])

\* String.prototype.trim, for titles with blanks
RECURSIVE trim(_)
trim(s) ==
    IF s = <<>> THEN s
    ELSE IF Head(s) = " " THEN trim(Tail(s))
    ELSE IF s[Len(s)] = " " THEN trim(SubSeq(s, 1, Len(s) - 1))
    ELSE s

\* bufferMinutes.toString() for the minutes of the select
toString(n) == IF n < 10 THEN <<Digits[n + 1]>> ELSE TwoDigit(n)

\* the values the URL parameters are chosen from; <<>> and "" are a parameter
\* that is absent or empty (urlParams.get gives null or '', both falsy)
UrlMovies == { <<>>, <<" ">>, <<"D", "u", "n", "e">> }
UrlTimes ==
    { <<>>, <<"2", "3", ":", "5", "9">>, <<"9", ":", "1", "5">>,
      <<"2", "4", ":", "0", "0">>, <<"1", "2", ":", "6", "0">>,
      <<"1", "2", ":", "5">> }
UrlBuffers == { <<>>, <<"5">>, <<"3", "5">>, <<"0", "5">> }
UrlAutos == { "", "true", "1" }

\* window.location.search: the parameters present and their values
Url(movie, time, buffer, auto, hasAuto) ==
    [has |-> (IF movie # <<>> THEN {"movie"} ELSE {})
                \cup (IF time # <<>> THEN {"time"} ELSE {})
                \cup (IF buffer # <<>> THEN {"buffer"} ELSE {})
                \cup (IF hasAuto THEN {"auto"} ELSE {}),
     movie |-> movie, time |-> time, buffer |-> buffer, auto |-> auto]

NoUrl == Url(<<>>, <<>>, <<>>, "", FALSE)

Urls ==
    { Url(m, t, b, a, a # "") : m \in UrlMovies, t \in UrlTimes, b \in UrlBuffers,
                               a \in UrlAutos }

\* the form after the constructor: setCurrentTime and populateBufferOptions
NewForm == [movieTitle |-> <<>>, startTime |-> <<"1", "2", ":", "3", "0">>,
            bufferTime |-> <<"2", "0">>]

\* what the user types into the form
TypedTitles == { <<"U", "p">> }
TypedTimes == { <<>> }

\* the panels of the page and the calculate button
NewUi == [loading |-> FALSE, disabled |-> FALSE, results |-> FALSE, error |-> FALSE,
          message |-> Null]

hideLoading(ui) == [ui EXCEPT !.loading = FALSE, !.disabled = FALSE]

hideError(ui) == [ui EXCEPT !.error = FALSE]

showLoading(ui) ==
    [hideError([ui EXCEPT !.loading = TRUE, !.results = FALSE]) EXCEPT !.disabled = TRUE]

\* faulty variant: the error is shown and the loading state is left as it is
showError_keepLoading(ui, message) ==
    [ui EXCEPT !.message = message, !.error = TRUE, !.results = FALSE]

showError(ui, message) ==
    hideLoading([ui EXCEPT !.message = message, !.error = TRUE, !.results = FALSE])

\* the times shown are in calc
displayResults(ui) == [hideError(hideLoading(ui)) EXCEPT !.results = TRUE]

\* the fields loadFromUrlParams sets
loadForm(form, url) ==
    [movieTitle |-> IF url.movie # <<>> THEN url.movie ELSE form.movieTitle,
     startTime  |-> IF url.time # <<>> /\ timeRegexTest(url.time)
                    THEN url.time ELSE form.startTime,
     bufferTime |-> IF url.buffer # <<>> /\ url.buffer \in VALID_BUFFER_VALUES
                    THEN url.buffer ELSE form.bufferTime]

\* movie && auto === 'true'
autoSearch(url) == url.movie # <<>> /\ url.auto = "true"

\* faulty variant: the auto parameter stays in the URL
updateUrlParams_keepAuto(url, movieTitle, startTime, bufferMinutes) ==
    [has |-> url.has \cup {"movie", "time", "buffer"},
     movie |-> movieTitle, time |-> startTime, buffer |-> toString(bufferMinutes),
     auto |-> url.auto]

updateUrlParams(url, movieTitle, startTime, bufferMinutes) ==
    [has |-> (url.has \cup {"movie", "time", "buffer"}) \ {"auto"},
     movie |-> movieTitle, time |-> startTime, buffer |-> toString(bufferMinutes),
     auto |-> ""]

(* searchMovie *)

\* a result of the search: its id and its release_date, <<>> for a missing or
\* empty one
Movie(id, date) == [id |-> id, release_date |-> date]

\* undefined
NoMovie == Movie(0, <<>>)

\* "YYYY-01-01"
DateOf(y) ==
    toString(y \div 100) \o TwoDigit(y % 100) \o <<"-", "0", "1", "-", "0", "1">>

\* the release dates and the current years of the model
ReleaseDates == { <<>> } \cup { DateOf(y) : y \in {2020, 2024, 2026, 2030} }
CurrentYears == {2025, 2026}

\* the result lists of the model
MaxResults == 3
ResultLists ==
    UNION { { [i \in 1..n |-> Movie(i, d[i])] : d \in [1..n -> ReleaseDates] } :
            n \in 0..MaxResults }

\* parseInt(movie.release_date.split('-')[0])
releaseYear(movie) ==
    LET d == movie.release_date
        i == CHOOSE k \in 1..(Len(d) + 1) :
                /\ k = Len(d) + 1 \/ d[k] = "-"
                /\ \A j \in 1..(k - 1) : d[j] # "-"
    IN  Number(SubSeq(d, 1, i - 1))

Abs(n) == IF n < 0 THEN -n ELSE n

\* the comparator of the sort
compareMovies(a, b, currentYear) ==
    LET aDiff == Abs(currentYear - releaseYear(a))
        bDiff == Abs(currentYear - releaseYear(b))
    IN  IF aDiff # bDiff THEN aDiff - bDiff ELSE releaseYear(b) - releaseYear(a)

\* Array.prototype.sort with the comparator: stable
RECURSIVE sortMovies(_, _)
sortMovies(s, currentYear) ==
    IF s = <<>> THEN <<>>
    ELSE LET x      == s[Len(s)]
             sorted == sortMovies(SubSeq(s, 1, Len(s) - 1), currentYear)
             before == SelectSeq(sorted, LAMBDA e : compareMovies(e, x, currentYear) <= 0)
             after  == SelectSeq(sorted, LAMBDA e : compareMovies(e, x, currentYear) > 0)
         IN  before \o <<x>> \o after

\* searchMovie from data.results on, the results not empty: recentMovies[0]
searchMovie(results, currentYear) ==
    LET recentMovies ==
            sortMovies(SelectSeq(results, LAMBDA m : m.release_date # <<>>), currentYear)
    IN  IF recentMovies = <<>> THEN NoMovie ELSE recentMovies[1]

(* handleCalculate *)

\* the runs of handleCalculate that can be in progress together: the click
\* and the Enter key are not held back while a run waits
Runs == {"r1", "r2"}

NoRun == [pc |-> "idle", title |-> <<>>, startTime |-> <<>>, bufferMinutes |-> 0,
          movie |-> NoMovie]

\* the answers to /search the runs of the page get, and the runtimes of
\* /movie/{id}
PageResults == { <<Movie(1, <<>>), Movie(2, DateOf(2024))>>, <<Movie(1, <<>>)>> }
PageRuntimes == {NoRuntime, 120}

\* the page after the constructor of MovieEndTimeCalculator, opened on url;
\* searched is history: the URL was written by a search
NewPage(url, searched) ==
    [url |-> url, loaded |-> FALSE, form |-> NewForm, ui |-> NewUi,
     run |-> [r \in Runs |-> NoRun], searched |-> searched,
     search |-> [results |-> <<>>, currentYear |-> 0, returned |-> NoMovie]]

\* handleCalculate is called and awaits authService.isAuthenticated()
beginCalculate(pg, r) == [pg EXCEPT !.run[r].pc = "auth"]

\* initializeAsync of an authenticated user: loadFromUrlParams
LoadFromUrlParams ==
    LET loaded == [page EXCEPT !.loaded = TRUE, !.form = loadForm(page.form, page.url)]
    IN  /\ ~page.loaded
        /\ page' = IF autoSearch(page.url) THEN beginCalculate(loaded, "r1") ELSE loaded
        /\ UNCHANGED <<now, rlVars, jwksVars, reqVars, calc, authVars>>

\* initializeAsync of a user who is not logged in: the URL is not read
ShowLoginState ==
    /\ ~page.loaded
    /\ page' = [page EXCEPT !.loaded = TRUE]
    /\ UNCHANGED <<now, rlVars, jwksVars, reqVars, calc, authVars>>

\* the user types a title or picks a start time
TypeTitle(title) ==
    /\ page.loaded
    /\ page' = [page EXCEPT !.form.movieTitle = title]
    /\ UNCHANGED <<now, rlVars, jwksVars, reqVars, calc, authVars>>

PickTime(time) ==
    /\ page.loaded
    /\ page' = [page EXCEPT !.form.startTime = time]
    /\ UNCHANGED <<now, rlVars, jwksVars, reqVars, calc, authVars>>

\* the click on the button or the Enter key in a field
HandleCalculate(r) ==
    /\ page.loaded
    /\ page.run[r].pc = "idle"
    /\ page' = beginCalculate(page, r)
    /\ UNCHANGED <<now, rlVars, jwksVars, reqVars, calc, authVars>>

\* isAuthenticated() has answered: the checks of the form, then showLoading,
\* updateUrlParams and the call of searchMovie
AuthenticatedSettles(r, isAuthenticated) ==
    LET movieTitle    == trim(page.form.movieTitle)
        startTime     == page.form.startTime
        bufferMinutes == Number(page.form.bufferTime)
        fail(message) == [page EXCEPT !.ui = showError(page.ui, message),
                                      !.run[r] = NoRun]
    IN  /\ page.run[r].pc = "auth"
        /\ page' =
              IF ~isAuthenticated THEN fail("Please log in to search for movies")
              ELSE IF movieTitle = <<>> THEN fail("Please enter a movie title")
              ELSE IF startTime = <<>> THEN fail("Please select a start time")
              ELSE [page EXCEPT
                      !.ui = showLoading(page.ui),
                      !.url = updateUrlParams(page.url, movieTitle, startTime,
                                              bufferMinutes),
                      !.searched = TRUE,
                      !.run[r] = [NoRun EXCEPT !.pc = "search", !.title = movieTitle,
                                               !.startTime = startTime,
                                               !.bufferMinutes = bufferMinutes]]
        /\ UNCHANGED <<now, rlVars, jwksVars, reqVars, calc, authVars>>

\* searchMovie settles: "redirect" is the request that ended in the redirect
\* to the login, "error" every throw of searchMovie; a movie that is undefined
\* makes `movie.id` throw a TypeError, which handleCalculate catches
SearchSettles(r, outcome, results, currentYear) ==
    LET movie == IF outcome = "redirect" THEN NoMovie
                 ELSE searchMovie(results, currentYear)
    IN  /\ page.run[r].pc = "search"
        /\ outcome = "results" => results # <<>>
        /\ page' =
              IF outcome = "error"
              THEN [page EXCEPT !.ui = showError(page.ui, "Failed to search for movies"),
                                !.run[r] = NoRun]
              ELSE IF movie = NoMovie
              THEN [page EXCEPT !.ui = showError(page.ui, "TypeError"),
                                !.run[r] = NoRun]
              ELSE [page EXCEPT !.run[r].pc = "details", !.run[r].movie = movie]
        /\ UNCHANGED <<now, rlVars, jwksVars, reqVars, calc, authVars>>

\* getMovieDetails settles, and calculateAndDisplayTimes runs on its movie
DetailsSettles(r, outcome, runtime) ==
    LET run    == page.run[r]
        result == calculateTimes(runtime, run.startTime, run.bufferMinutes)
    IN  /\ run.pc = "details"
        /\ page' =
              IF outcome = "error"
              THEN [page EXCEPT !.ui = showError(page.ui, "Failed to get movie details"),
                                !.run[r] = NoRun]
              ELSE IF outcome = "redirect"
              THEN [page EXCEPT !.ui = showError(page.ui, "TypeError"),
                                !.run[r] = NoRun]
              ELSE IF result.error # Null
              THEN [page EXCEPT !.ui = showError(page.ui, result.error),
                                !.run[r] = NoRun]
              ELSE [page EXCEPT !.ui = displayResults(page.ui),
                                !.run[r] = NoRun]
        /\ UNCHANGED <<now, rlVars, jwksVars, reqVars, calc, authVars>>

\* the page is loaded again on the URL it has
Reload ==
    /\ page.loaded
    /\ page' = NewPage(page.url, page.searched)
    /\ UNCHANGED <<now, rlVars, jwksVars, reqVars, calc, authVars>>

\* searchMovie on its own, from data.results on; one search is followed, a
\* search does not depend on the ones before
SearchMovie(results, currentYear) ==
    /\ page.search.results = <<>>
    /\ results # <<>>
    /\ page' = [page EXCEPT !.search = [results |-> results, currentYear |-> currentYear,
                                        returned |-> searchMovie(results, currentYear)]]
    /\ UNCHANGED <<now, rlVars, jwksVars, reqVars, calc, authVars>>

\* the page after its constructors, opened without parameters
InitFront ==
    /\ calc = NoCalc
    /\ auth = NewAuthService(FALSE)
    /\ attempt = [c \in Callers |-> "none"]
    /\ caller = [c \in Callers |-> NoCaller]
    /\ page = NewPage(NoUrl, FALSE)

-----------------------------------------------------------------------------
(* The rate limiter on its own *)

CallBound(key) == IF key = "auth_unknown" THEN MaxOtherCalls ELSE MaxCalls

NoCall == [key |-> Null, allowed |-> FALSE, before |-> NoRecord, flip |-> FALSE,
           swept |-> FALSE]

\* the Worker after its start, in production
InitBackend ==
    /\ now = 0
    /\ rateLimitStorage = [k \in RLKeys |-> NoRecord]
    /\ rlLast = NoCall
    /\ rlCalls = [k \in RLKeys |-> 0]
    /\ InitJwksVars
    /\ InitReqVars
    /\ env = ProdEnv

InitRL == InitBackend /\ InitFront

\* the clock moves on to a later instant
Tick ==
    /\ \E t \in Instants : t > now /\ now' = t
    /\ UNCHANGED <<rlVars, jwksVars, reqVars, frontVars>>

\* one call of checkRateLimit, for a request with the given IP headers; sweep is
\* the outcome of Math.random() < 0.01
CallCheckRateLimit(cf, xff, sweep) ==
    LET k      == rlKey(cf, xff)
        res    == checkRateLimit(rateLimitStorage, k, now, sweep)
        opened == res.storage[k] = [count |-> 1, windowStart |-> now]
                    /\ rateLimitStorage[k] # res.storage[k]
    IN  /\ rlCalls[k] < CallBound(k) \/ opened
        /\ RateLimitCall(k, sweep)
        /\ UNCHANGED <<now, jwksVars, reqVars, frontVars>>

NextRL ==
    \/ Tick
    \/ \E cf \in {Null, "10.0.0.1"}, sweep \in BOOLEAN :
            CallCheckRateLimit(cf, Null, sweep)

SpecRL == InitRL /\ [][NextRL]_vars

-----------------------------------------------------------------------------
(* The JWKS cache on its own: concurrent direct calls of getJWKS *)

\* a direct call of getJWKS by an idle task
CallGetJWKS(t) ==
    /\ pc[t] = "idle"
    /\ req[t] = NoReq
    /\ GetJWKSBegin(t, Auth0Domain)
    /\ UNCHANGED <<now, rlVars, reqVars, frontVars>>

\* the caller has its answer; the task ends
Finish(t) ==
    /\ pc[t] \in {"jwks_ret", "jwks_throw"}
    /\ req[t] = NoReq
    /\ pc' = [pc EXCEPT ![t] = "idle"]
    /\ cached' = [cached EXCEPT ![t] = NoEntry]
    /\ jwks' = [jwks EXCEPT ![t] = NotJson]
    /\ call' = [call EXCEPT ![t] = NoCallJ]
    /\ UNCHANGED <<now, rlVars, jwksCache, resp, reqVars, frontVars>>

\* the clock moves on to an instant around a multiple of the TTL
TickTTL ==
    /\ \E u \in TTLInstants : u > now /\ now' = u
    /\ UNCHANGED <<rlVars, jwksVars, reqVars, frontVars>>


InitJWKS == InitRL

NextJWKS ==
    \/ TickTTL
    \/ \E t \in Tasks : CallGetJWKS(t)
    \/ \E t \in Tasks, outcome \in {"error", "notok", "ok"} : FetchSettles(t, outcome)
    \/ \E t \in Tasks, body \in JwksBodies : JsonSettles(t, body)
    \/ \E t \in Tasks : Finish(t)

SpecJWKS == InitJWKS /\ [][NextJWKS]_vars

-----------------------------------------------------------------------------
(* The Worker: requests handled one after the other by one task *)

\* the task that handles the requests
Worker == "t1"

\* the limiter's record of the client when the model starts: none, or one call
\* short of the limit in a window opened at time 0
RecordsAtStart == { NoRecord, [count |-> maxRequests - 1, windowStart |-> 0] }

Init ==
    /\ now = 0
    /\ \E rec \in RecordsAtStart :
        /\ rateLimitStorage = [k \in RLKeys |->
                                IF k = "auth_10.0.0.1" THEN rec ELSE NoRecord]
    /\ rlCalls = [k \in RLKeys |-> 0]
    /\ rlLast = NoCall
    /\ InitJwksVars
    /\ InitReqVars
    /\ env \in Envs
    /\ InitFront

\* the clock of the Worker moves on
TickReq ==
    /\ \E u \in TTLInstants : u > now /\ u <= 1000 * MaxReqSec /\ now' = u
    /\ UNCHANGED <<rlVars, jwksVars, reqVars, frontVars>>

Next ==
    \/ TickReq
    \/ \E r \in Requests, sweep \in BOOLEAN : Receive(Worker, r, sweep)
    \/ \E outcome \in {"error", "notok", "ok"} : FetchSettles(Worker, outcome)
    \/ \E body \in JwksBodies : JsonSettles(Worker, body)
    \/ ResumeAfterJWKS(Worker)
    \/ ImportSettles(Worker)
    \/ VerifySettles(Worker)
    \/ \E outcome \in UpstreamOutcomes : UpstreamSettles(Worker, outcome)
    \/ FinishRequest(Worker)

Spec == Init /\ [][Next]_vars

-----------------------------------------------------------------------------
(* Claims about the Worker (Spec) *)

\* the routes the README lists as protected
ProtectedRoute(path) ==
    /\ Len(path) >= 2 /\ path[1] = "api" /\ path[2] \in {"search", "movie", "user"}
    /\ path[2] \in {"search", "user"} => Len(path) = 2

\* a route handler has been entered for the request of task t: it waits for the
\* movie database or has produced the response
HandlerEntered(t) ==
    \/ pc[t] = "upstream"
    \/ /\ pc[t] = "done"
       /\ \/ out[t].body \in {"user", "tmdb", "runtime"}
          \/ out[t].error \in {"Query parameter is required", "Movie ID is required",
                               "external_api"}

\* number of "." in a token
RECURSIVE DotCount(_)
DotCount(s) == IF s = <<>> THEN 0 ELSE (IF Head(s) = Dot THEN 1 ELSE 0) + DotCount(Tail(s))

\* the text between the first and the second "." of a token with two of them
PayloadText(s) == SelectSeq(SubSeq(s, FirstDot(s, 1) + 1, Len(s)),
                            LAMBDA c : c \in DOMAIN JsonOf)

\* C1: whenever the handler of a protected route has been entered for a request,
\* requireAuth has returned for that request: verifyJWT ran to its end, the
\* signature of the request's token is valid under the key used, and user is
\* the decoded payload of that token, never null.
C1_HandlerAfterAuth ==
    \A t \in Tasks :
        (req[t] # NoReq /\ ProtectedRoute(req[t].path) /\ HandlerEntered(t)) =>
            /\ user[t].ok
            /\ req[t].auth.scheme = "Bearer"
            /\ DotCount(req[t].auth.token) = 2
            /\ PayloadText(req[t].auth.token) # <<>>
            /\ user[t] = JsonOf[PayloadText(req[t].auth.token)[1]]
            /\ trace[t] # <<>> /\ trace[t][Len(trace[t])] = "claims"
            /\ req[t].auth.token[Len(req[t].auth.token)] \in DOMAIN SignerOf
            /\ SignerOf[req[t].auth.token[Len(req[t].auth.token)]] = jwtKey[t].mat
            /\ jwtKey[t].kid = hdr[t].kid

\* the search handler waits for the movie database on behalf of a verified user
C1_Witness ==
    \E t \in Tasks :
        /\ pc[t] = "upstream" /\ req[t].path = SearchPath
        /\ user[t].ok /\ user[t].sub = "auth0|u1"

\* s is an initial part of q
IsPrefix(s, q) == Len(s) <= Len(q) /\ SubSeq(q, 1, Len(s)) = s

\* the stage at which verifyJWT throws each of its errors
StageOf(message) ==
    CASE message = "Invalid JWT format" -> "split"
      [] message \in {"Invalid JWT header encoding", "No key ID in JWT header"} -> "header"
      [] message = "Failed to fetch JWKS" -> "jwks"
      [] message = "No matching key found" -> "key"
      [] message = "Invalid signature" -> "verify"
      [] message = "Invalid JWT payload encoding" -> "payload"
      [] message \in {"Token expired", "Invalid audience", "Invalid issuer"} -> "claims"
      [] OTHER -> "none"

\* C2 as stated: the stages run in the order decode (header and payload), key-set
\* fetch, signature verify, claims validate.
C2_Original ==
    \A t \in Tasks :
        IsPrefix(trace[t], <<"split", "header", "payload", "jwks", "key", "import",
                             "verify", "claims">>)

\* C2 amended: the stages run in the order split, header decode, key-set fetch,
\* key lookup and import, signature verify, payload decode, claims validate; the
\* stage that fails is the last one to run and the request gets a 401; the
\* request gets past verifyJWT only after all of them.
C2_StageOrder ==
    \A t \in Tasks :
        /\ IsPrefix(trace[t], <<"split", "header", "jwks", "key", "import", "verify",
                                "payload", "claims">>)
        /\ (pc[t] = "done" /\ StageOf(log[t]) # "none") =>
              /\ out[t].status = 401
              /\ trace[t] # <<>>
              /\ trace[t][Len(trace[t])] = StageOf(log[t])
              /\ ~user[t].ok
        /\ user[t].ok => Len(trace[t]) = 8

\* a payload that is no JSON was found after the key set had been fetched and the
\* signature verified
C2_Witness ==
    \E t \in Tasks :
        /\ pc[t] = "done" /\ out[t].status = 401
        /\ log[t] = "Invalid JWT payload encoding"
        /\ trace[t] = <<"split", "header", "jwks", "key", "import", "verify", "payload">>
        /\ call[t].fetched

\* verifyJWT has been called for the request of task t
InVerifyJWT(t) == req[t] # NoReq /\ req[t].auth.scheme = "Bearer" /\ trace[t] # <<>>

\* C9: a token given to verifyJWT that has fewer or more than two "." ends the
\* request with a 401 for 'Invalid JWT format', after the split alone: getJWKS is
\* not called, so the cache is not read and no fetch is started.
C9_MalformedToken ==
    \A t \in Tasks :
        (InVerifyJWT(t) /\ DotCount(req[t].auth.token) # 2) =>
            /\ pc[t] = "done"
            /\ out[t].status = 401
            /\ log[t] = "Invalid JWT format"
            /\ trace[t] = <<"split">>
            /\ call[t] = NoCallJ /\ cached[t] = NoEntry /\ resp[t] = Null

\* a token of four segments was rejected while the cache held a key set
C9_Witness ==
    \E t \in Tasks :
        /\ InVerifyJWT(t) /\ DotCount(req[t].auth.token) = 3
        /\ log[t] = "Invalid JWT format" /\ out[t].status = 401
        /\ jwksCache[cacheKeyOf(Auth0Domain)] # NoEntry

\* C10: a token of three segments given to verifyJWT whose header is JSON
\* without kid ends the request with a 401 for 'No key ID in JWT header' before
\* getJWKS is called: the cache is not read and no fetch is started.
C10_NoKid ==
    \A t \in Tasks :
        (/\ InVerifyJWT(t) /\ DotCount(req[t].auth.token) = 2
         /\ SubSeq(req[t].auth.token, 1, 2) = <<"h0", Dot>>) =>
            /\ pc[t] = "done"
            /\ out[t].status = 401
            /\ log[t] = "No key ID in JWT header"
            /\ trace[t] = <<"split", "header">>
            /\ call[t] = NoCallJ /\ cached[t] = NoEntry /\ resp[t] = Null

\* a token without kid, otherwise good, was rejected
C10_Witness ==
    \E t \in Tasks :
        /\ InVerifyJWT(t)
        /\ req[t].auth.token = <<"h0", Dot, "pOk", Dot, "sM1">>
        /\ log[t] = "No key ID in JWT header" /\ out[t].status = 401
        /\ call[t] = NoCallJ

-----------------------------------------------------------------------------
(* Claims about the rate limiter (SpecRL) *)

\* this step is a call of checkRateLimit for key k
RLCallStep(k) == rlLast'.flip # rlLast.flip /\ rlLast'.key = k

FreshWindow(t) == [count |-> 1, windowStart |-> t]

\* C3: for one client, a call that finds no record is allowed; of the calls made
\* less than 60 s after the first call of a window exactly the first 100 are
\* allowed (the 101st and later ones are denied); a call made 61 s or more after
\* the first call is allowed and opens a window with count 1.
C3_FirstHundred ==
    [][\A k \in RLKeys : RLCallStep(k) =>
        LET before == rateLimitStorage[k]
            age    == now - before.windowStart
        IN  /\ before = NoRecord =>
                  rlLast'.allowed /\ rateLimitStorage'[k] = FreshWindow(now)
            /\ (before # NoRecord /\ age < 60000) =>
                  (rlLast'.allowed <=> rlCalls'[k] <= 100)
            /\ (before # NoRecord /\ age >= 61000) =>
                  rlLast'.allowed /\ rateLimitStorage'[k] = FreshWindow(now)]_vars

\* the 101st call of a window has been made and was denied
C3_Witness ==
    \E k \in RLKeys :
        /\ rlCalls[k] = 101
        /\ rlLast.key = k /\ ~rlLast.allowed
        /\ rateLimitStorage[k].count = 100
        /\ now - rateLimitStorage[k].windowStart < 60000

\* C4 as stated: a call that finds a record of age >= 60 s (60 s included) is
\* allowed and opens a window with count 1.
C4_Original ==
    [][\A k \in RLKeys : RLCallStep(k) =>
        LET before == rateLimitStorage[k]
        IN  (before # NoRecord /\ now - before.windowStart >= 60000) =>
                rlLast'.allowed /\ rateLimitStorage'[k] = FreshWindow(now)]_vars

\* C4 amended: a call that finds a record of age > 60 s is allowed and opens a
\* window with count 1, even if the old count had reached 100; at an age of
\* exactly 60 s the call still belongs to the old window: it is denied if the
\* count has reached 100, and counted in the old record otherwise.
C4_StrictlyOlder ==
    [][\A k \in RLKeys : RLCallStep(k) =>
        LET before == rateLimitStorage[k]
            age    == now - before.windowStart
        IN  /\ (before # NoRecord /\ age > 60000) =>
                  rlLast'.allowed /\ rateLimitStorage'[k] = FreshWindow(now)
            /\ (before # NoRecord /\ age = 60000) =>
                  IF before.count >= 100
                  THEN ~rlLast'.allowed /\ rateLimitStorage'[k] = before
                  ELSE /\ rlLast'.allowed
                       /\ rateLimitStorage'[k] =
                            [before EXCEPT !.count = before.count + 1]]_vars

\* a record whose count had reached 100 was replaced by a fresh window
C4_Witness ==
    /\ rlLast.key # Null
    /\ rlLast.before.count = 100
    /\ now - rlLast.before.windowStart > 60000
    /\ rlLast.allowed
    /\ rateLimitStorage[rlLast.key] = FreshWindow(now)

-----------------------------------------------------------------------------
(* Claims about the JWKS cache (SpecJWKS) *)

TheCacheKey == cacheKeyOf(Auth0Domain)

Started(t) == call[t].startAt >= 0
Returned(t) == pc[t] \in {"jwks_ret", "jwks_throw"}

\* C5 as stated: of two calls for the domain made less than 300 s apart, the
\* first of them finding no entry, exactly one (the first) fetches.
C5_Original ==
    \A t, u \in Tasks :
        (/\ t # u /\ Started(t) /\ Started(u) /\ Returned(t) /\ Returned(u)
         /\ call[t].seen = NoEntry
         /\ call[t].startAt <= call[u].startAt
         /\ call[u].startAt - call[t].startAt < 300000)
        => (call[t].fetched /\ ~call[u].fetched)

\* C5 amended: a call that finds an entry younger than 300 s returns its data
\* without fetching; so two calls, the second starting after the first has stored
\* the key set it fetched and less than 300 s after that store, perform exactly
\* one fetch in total.
C5_OneFetch ==
    /\ \A t \in Tasks :
        (/\ Started(t) /\ call[t].seen # NoEntry
         /\ call[t].startAt - call[t].seen.timestamp < 300000)
        => (~call[t].fetched /\ pc[t] = "jwks_ret" /\ jwks[t] = call[t].seen.data)
    /\ \A t, u \in Tasks :
        (/\ t # u /\ call[t].wrote # NoEntry /\ Started(u)
         /\ call[u].seen = call[t].wrote
         /\ call[u].startAt - call[t].wrote.timestamp < 300000)
        => (call[t].fetched /\ ~call[u].fetched)

\* a second call, 299 s after the first stored what it fetched, did not fetch
C5_Witness ==
    \E t, u \in Tasks :
        /\ t # u /\ call[t].wrote # NoEntry /\ call[t].fetched
        /\ call[u].seen = call[t].wrote
        /\ call[u].startAt - call[t].wrote.timestamp = 299000
        /\ ~call[u].fetched /\ pc[u] = "jwks_ret"

\* C6: a call whose fetch fails returns the data of the entry that was cached
\* when the call was made, if there was one, and throws only if there was none.
C6_StaleFallback ==
    \A t \in Tasks :
        call[t].failed # Null =>
            IF call[t].seen # NoEntry
            THEN pc[t] = "jwks_ret" /\ jwks[t] = call[t].seen.data
            ELSE pc[t] = "jwks_throw"

\* a fetch failed and the entry cached more than 300 s earlier was returned
C6_Witness ==
    \E t \in Tasks :
        /\ call[t].failed # Null
        /\ call[t].seen # NoEntry
        /\ call[t].startAt - call[t].seen.timestamp >= 300000
        /\ pc[t] = "jwks_ret" /\ jwks[t] = call[t].seen.data

\* C7: every cached key set came from a response that was ok and whose body is
\* JSON with a non-empty keys array; a call whose response was not ok or whose
\* body has no such array has failed and has stored nothing.
C7_OnlyGoodKeySets ==
    /\ \A k \in CacheKeys :
        jwksCache[k] # NoEntry =>
            /\ jwksCache[k].fromOk
            /\ jwksCache[k].data.json
            /\ IsArray(jwksCache[k].data.keys)
            /\ Len(jwksCache[k].data.keys) >= 1
    /\ \A t \in Tasks :
        call[t].failed # Null => call[t].wrote = NoEntry

\* a body without a usable keys array arrived and the entry cached before it is
\* still the one in the cache
C7_Witness ==
    \E t \in Tasks :
        /\ call[t].failed = "body"
        /\ call[t].seen # NoEntry
        /\ jwksCache[TheCacheKey] = call[t].seen

\* this step is the cache write of task t
StoreStep(t) == pc[t] = "json" /\ pc'[t] = "jwks_ret" /\ call'[t].failed = Null

\* C8: the step that ends a successful fetch leaves in the cache the fetched key
\* set, stamped with the time of that step, and returns it; every call made while
\* that entry is in the cache and less than 300 s old returns its data without
\* fetching.
C8_StoreThenServe ==
    /\ [][\A t \in Tasks : StoreStep(t) =>
            /\ jwksCache'[TheCacheKey].data = jwks'[t]
            /\ jwksCache'[TheCacheKey].timestamp = now
            /\ call'[t].wrote = jwksCache'[TheCacheKey]]_vars
    /\ [](\A t, u \in Tasks :
            (/\ t # u /\ call[t].wrote # NoEntry /\ Started(u)
             /\ call[u].seen = call[t].wrote
             /\ call[u].startAt - call[t].wrote.timestamp < 300000)
            => (~call[u].fetched /\ jwks[u] = call[t].wrote.data))

\* a key set stored after the clock had moved during the fetch was served to a
\* call made 299 s later
C8_Witness ==
    \E t, u \in Tasks :
        /\ t # u /\ call[t].wrote # NoEntry
        /\ call[t].wrote.timestamp > call[t].startAt
        /\ call[u].seen = call[t].wrote
        /\ call[u].startAt - call[t].wrote.timestamp = 299000
        /\ ~call[u].fetched /\ jwks[u] = call[t].wrote.data

-----------------------------------------------------------------------------
(* Claims about the validation of the decoded payload (Spec) *)

\* this step is the one in which crypto.subtle.verify settles for task t and
\* verifyJWT runs to its end
VerifyStep(t) == pc[t] = "verify" /\ pc'[t] # "verify"

\* the decoded payload of the token of task t, and whether its signature is one
\* made with the key verifyJWT imported
PayloadOf(t) == DecodeJson(Split(req[t].auth.token)[2])
SignedByKey(t) == SignatureValid(jwtKey[t], Split(req[t].auth.token)[3])

\* exp is a timestamp, in seconds, before the clock's t milliseconds
PastExp(exp, t) == exp # NoExp /\ exp * 1000 < t

\* the token was accepted / rejected with this message in the step
Accepted(t) == user'[t].ok /\ out'[t].status # 401
RejectedWith(t, message) ==
    ~user'[t].ok /\ out'[t].status = 401 /\ log'[t] = message

\* C11, for the tokens whose signature is valid: a token whose payload carries
\* an exp that is a past timestamp fails with 'Token expired'.
C11_PastExpFails ==
    [][\A t \in Tasks :
        (VerifyStep(t) /\ SignedByKey(t) /\ PayloadOf(t).ok
            /\ PastExp(PayloadOf(t).exp, now))
        => RejectedWith(t, "Token expired")]_vars

\* C12, for the tokens that carry an exp: a token is accepted only if its exp,
\* in seconds, is strictly greater than the time of the validation.
C12_ExpAhead ==
    [][\A t \in Tasks :
        (VerifyStep(t) /\ Accepted(t) /\ user'[t].exp # NoExp)
        => user'[t].exp * 1000 > now]_vars

\* the audience expected is one of the elements of the array
Contains(items, x) == \E i \in 1..Len(items) : items[i] = x

\* the step takes verifyJWT past the signature, the payload decoding and the
\* expiry check, to the audience check
ReachesAudienceCheck(t) ==
    /\ VerifyStep(t) /\ SignedByKey(t) /\ PayloadOf(t).ok
    /\ log'[t] # "Token expired"

\* C13: with an expected audience configured, of the tokens that reach the
\* audience check one whose aud is an array without the expected audience fails
\* with 'Invalid audience', one whose aud is an array with it passes the check,
\* and one whose aud is a string passes the check exactly if the string is the
\* expected audience.
C13_Audience ==
    [][\A t \in Tasks :
        (ReachesAudienceCheck(t) /\ Truthy(env.AUTH0_AUDIENCE)) =>
            LET aud == PayloadOf(t).aud
            IN  IF aud.array
                THEN IF Contains(aud.items, env.AUTH0_AUDIENCE)
                     THEN log'[t] # "Invalid audience"
                     ELSE RejectedWith(t, "Invalid audience")
                ELSE IF aud.items = <<env.AUTH0_AUDIENCE>>
                     THEN log'[t] # "Invalid audience"
                     ELSE RejectedWith(t, "Invalid audience")]_vars

\* a token whose aud is an array with the expected audience in second place was
\* accepted
C13_Witness ==
    \E t \in Tasks :
        /\ pc[t] = "done" /\ out[t].status = 200
        /\ user[t].ok /\ user[t].aud = ArrAud(<<OtherAudience, ExpectedAudience>>)

\* the step takes verifyJWT to the issuer check
ReachesIssuerCheck(t) ==
    ReachesAudienceCheck(t) /\ log'[t] # "Invalid audience"

\* C14: a token is accepted only if its iss is exactly https://{AUTH0_DOMAIN}/ ;
\* a token that reaches the issuer check with any other iss, or with none, fails
\* with 'Invalid issuer'.
C14_Issuer ==
    [][\A t \in Tasks :
        /\ (VerifyStep(t) /\ Accepted(t)) =>
              user'[t].iss = "https://" \o env.AUTH0_DOMAIN \o "/"
        /\ (ReachesIssuerCheck(t)
               /\ PayloadOf(t).iss # "https://" \o env.AUTH0_DOMAIN \o "/")
            => RejectedWith(t, "Invalid issuer")]_vars

\* a token without iss, otherwise good, was rejected
C14_Witness ==
    \E t \in Tasks :
        /\ pc[t] = "done" /\ out[t].status = 401 /\ log[t] = "Invalid issuer"
        /\ req[t].auth.token = Join3(<<"hK1">>, <<"pNoIss">>, <<"sM1">>)

\* the token of task t has three segments, a header with a kid, a payload with
\* an exp that is still ahead, the expected audience (alone or in an array) and the
\* expected issuer, and a signature made with the key of that kid in the key
\* set that getJWKS returned
GoodTokenOf(t) ==
    LET parts == Split(req[t].auth.token)
    IN  /\ req[t] # NoReq /\ req[t].auth.scheme = "Bearer"
        /\ Len(parts) = 3
        /\ DecodeJson(parts[1]).ok /\ Truthy(DecodeJson(parts[1]).kid)
        /\ pc[t] \notin {"idle", "fetch", "json", "jwks_throw"}
        /\ jwks[t] # NotJson
        /\ FindKey(jwks[t].keys, DecodeJson(parts[1]).kid) # NoKey
        /\ SignatureValid(FindKey(jwks[t].keys, DecodeJson(parts[1]).kid), parts[3])
        /\ DecodeJson(parts[2]).ok
        /\ DecodeJson(parts[2]).exp * 1000 > now
        /\ LET aud == DecodeJson(parts[2]).aud
           IN  IF aud.array THEN Contains(aud.items, env.AUTH0_AUDIENCE)
               ELSE aud.items = <<env.AUTH0_AUDIENCE>>
        /\ DecodeJson(parts[2]).iss = "https://" \o env.AUTH0_DOMAIN \o "/"

\* C15: a well-formed token signed by a key of the key set, with a future exp,
\* a matching aud and the matching iss, is accepted: verifyJWT throws nothing,
\* the request gets no 401, and `user` is the decoded payload, field by field.
C15_RoundTrip ==
    \A t \in Tasks :
        GoodTokenOf(t) =>
            /\ log[t] \notin {"No matching key found", "Invalid signature",
                              "Invalid JWT payload encoding", "Token expired",
                              "Invalid audience", "Invalid issuer"}
            /\ out[t].status # 401
            /\ pc[t] \in {"upstream", "done"} =>
                  /\ user[t] = DecodeJson(Split(req[t].auth.token)[2])
                  /\ trace[t][Len(trace[t])] = "claims"

\* /api/user answered 200 for a good token
C15_Witness ==
    \E t \in Tasks :
        /\ GoodTokenOf(t) /\ pc[t] = "done" /\ req[t].path = UserPath
        /\ out[t].status = 200 /\ out[t].body = "user"
        /\ user[t] = JsonOf["pOk"]

-----------------------------------------------------------------------------
(* Claims about the order of the checks of handleApiRequest (Spec) *)

\* this step is the arrival of a request at task t: handleApiRequest runs up to
\* its first suspension or to its response
ReceiveStep(t) == req[t] = NoReq /\ req'[t] # NoReq

\* the request carries an Origin that validateOrigin resolves to nothing
OriginRejected(r) == Truthy(r.origin) /\ ~Truthy(validateOrigin(r.origin, env))

\* one of AUTH0_DOMAIN, AUTH0_AUDIENCE, TMDB_API_KEY is not set
ConfigMissing ==
    ~Truthy(env.AUTH0_DOMAIN) \/ ~Truthy(env.AUTH0_AUDIENCE) \/ ~Truthy(env.TMDB_API_KEY)

\* the step has not called the rate limiter
LimiterUntouched == rateLimitStorage' = rateLimitStorage

\* the step has not read the Authorization header, entered verifyJWT or called
\* getJWKS for task t
NoTokenWork(t) ==
    /\ trace'[t] = <<>>
    /\ call'[t] = NoCallJ /\ cached'[t] = NoEntry /\ jwksCache' = jwksCache
    /\ hdr'[t] = DecodeFail /\ jwtKey'[t] = NoKey /\ user'[t] = DecodeFail
    /\ log'[t] = Null

\* C16 as stated: a request with an Origin that resolves to no allowed origin
\* gets a 403 without CORS headers, whatever its method.
C16_Original ==
    \A t \in Tasks :
        (req[t] # NoReq /\ OriginRejected(req[t])) =>
            /\ pc[t] = "done"
            /\ out[t].status = 403 /\ out[t].cors = NoCors

\* C16 amended: a request of a method other than OPTIONS with such an Origin is
\* answered at once with a 403 without CORS headers, before the configuration
\* checks, the rate limiter and the token; an OPTIONS request with such an
\* Origin gets the preflight's 200 with the CORS headers minus
\* Access-Control-Allow-Origin.
C16_BadOriginRejected ==
    [][\A t \in Tasks :
        (ReceiveStep(t) /\ OriginRejected(req'[t])) =>
            /\ pc'[t] = "done"
            /\ LimiterUntouched /\ NoTokenWork(t)
            /\ IF req'[t].method = "OPTIONS"
               THEN /\ out'[t].status = 200
                    /\ out'[t].cors.base /\ out'[t].cors.allowOrigin = Null
                    /\ out'[t].cors.allowCredentials = Null
               ELSE /\ out'[t].status = 403
                    /\ out'[t].error = "Origin not allowed"
                    /\ out'[t].cors = NoCors]_vars

\* a GET from a foreign origin got the 403 although the movie database key is
\* not configured
C16_Witness ==
    \E t \in Tasks :
        /\ pc[t] = "done" /\ req[t].method = "GET"
        /\ req[t].origin = "https://evil.example.com"
        /\ env.TMDB_API_KEY = Null
        /\ out[t].status = 403 /\ out[t].cors = NoCors

\* C17: an OPTIONS request for a protected route is answered in the step of its
\* arrival with the preflight response; that step does not call the rate
\* limiter (no record is created or changed), reads no token and leaves the
\* key-set cache alone.
C17_PreflightShortCircuit ==
    [][\A t \in Tasks :
        (ReceiveStep(t) /\ req'[t].method = "OPTIONS"
            /\ ProtectedRoute(req'[t].path)) =>
            /\ pc'[t] = "done"
            /\ out'[t].status = 200 /\ out'[t].body = Null
            /\ LimiterUntouched /\ rlCalls' = rlCalls
            /\ NoTokenWork(t)]_vars

\* a preflight for /api/search that carries a token was answered and the client
\* has no rate-limit record
C17_Witness ==
    \E t \in Tasks :
        /\ pc[t] = "done" /\ req[t].method = "OPTIONS"
        /\ req[t].path = SearchPath /\ req[t].auth.scheme = "Bearer"
        /\ out[t].status = 200
        /\ rateLimitStorage[rlKey(req[t].cf, req[t].xff)] = NoRecord

\* the request gets past the preflight, the origin check and the configuration
\* checks
PastEarlyChecks(r) ==
    r.method # "OPTIONS" /\ ~OriginRejected(r) /\ ~ConfigMissing

\* the record of the client of r is one of a window that is not over and has
\* reached the limit
AtLimit(r) ==
    LET record == rateLimitStorage[rlKey(r.cf, r.xff)]
    IN  /\ record # NoRecord
        /\ now - record.windowStart <= 60000
        /\ record.count >= 100

\* C18: a request for a protected route that gets as far as the protected-route
\* block meets the rate limiter first.  If the limiter denies, the response is a
\* 429 with Retry-After: 60 whatever the Authorization header is, and nothing
\* is done with the token; if it allows, the call is counted in the client's
\* record even when the request then fails for its Authorization header.
C18_LimiterFirst ==
    [][\A t \in Tasks :
        (ReceiveStep(t) /\ ProtectedRoute(req'[t].path) /\ PastEarlyChecks(req'[t])) =>
            LET k == rlKey(req'[t].cf, req'[t].xff)
            IN  IF AtLimit(req'[t])
                THEN /\ pc'[t] = "done"
                     /\ out'[t].status = 429 /\ out'[t].retryAfter = "60"
                     /\ rateLimitStorage'[k] = rateLimitStorage[k]
                     /\ NoTokenWork(t)
                ELSE /\ out'[t].status # 429
                     /\ rateLimitStorage'[k] # rateLimitStorage[k]
                     /\ rateLimitStorage'[k].count =
                           IF rateLimitStorage'[k].windowStart = now
                              /\ rateLimitStorage[k].windowStart # now
                           THEN 1 ELSE rateLimitStorage[k].count + 1]_vars

\* a request without Authorization header was answered 429, not 401
C18_Witness ==
    \E t \in Tasks :
        /\ pc[t] = "done" /\ req[t].auth = NoAuth
        /\ out[t].status = 429 /\ out[t].retryAfter = "60"
        /\ trace[t] = <<>> /\ call[t] = NoCallJ

\* C19: in production, a request for a protected route that gets past the
\* early checks and is allowed by the rate limiter, with no Authorization header
\* or one that does not start with 'Bearer ', gets a 401 whose body is
\* {error: "authentication", message: "Authentication failed"}.
C19_MissingCredentials ==
    [][\A t \in Tasks :
        (/\ ReceiveStep(t) /\ ProtectedRoute(req'[t].path)
         /\ PastEarlyChecks(req'[t]) /\ ~AtLimit(req'[t])
         /\ env.ENVIRONMENT # "development"
         /\ req'[t].auth.scheme # "Bearer") =>
            /\ pc'[t] = "done"
            /\ out'[t].status = 401
            /\ out'[t].error = "authentication"
            /\ out'[t].message = "Authentication failed"
            /\ ~out'[t].debug
            /\ trace'[t] = <<>> /\ call'[t] = NoCallJ]_vars

\* a request with a Basic Authorization header got the 401 in production
C19_Witness ==
    \E t \in Tasks :
        /\ pc[t] = "done" /\ env.ENVIRONMENT = "production"
        /\ req[t].auth.scheme = "Basic" /\ req[t].path = UserPath
        /\ out[t].status = 401 /\ out[t].message = "Authentication failed"

\* C20: with AUTH0_DOMAIN, AUTH0_AUDIENCE or TMDB_API_KEY missing, a request of
\* a method other than OPTIONS is answered in the step of its arrival, never
\* with a 401, and without the rate limiter or the token being looked at; the
\* answer is a 500 (for a request that the origin check has let through).
C20_ConfigMissing ==
    [][\A t \in Tasks :
        (ReceiveStep(t) /\ ConfigMissing /\ req'[t].method # "OPTIONS") =>
            /\ pc'[t] = "done"
            /\ out'[t].status # 401
            /\ LimiterUntouched /\ NoTokenWork(t)
            /\ ~OriginRejected(req'[t]) =>
                  /\ out'[t].status = 500
                  /\ out'[t].error =
                        IF ~Truthy(env.AUTH0_DOMAIN) \/ ~Truthy(env.AUTH0_AUDIENCE)
                        THEN "Authentication not configured"
                        ELSE "TMDB API key not configured"]_vars

\* a request for /api/user without credentials got a 500 because no audience is
\* configured
C20_Witness ==
    \E t \in Tasks :
        /\ pc[t] = "done" /\ env.AUTH0_AUDIENCE = Null
        /\ req[t].method = "GET" /\ req[t].path = UserPath /\ req[t].auth = NoAuth
        /\ out[t].status = 500 /\ out[t].error = "Authentication not configured"

-----------------------------------------------------------------------------
(* Claims about the bodies of the error responses (Spec) *)

\* the messages of the errors that requireAuth and verifyJWT throw
PipelineErrors ==
    {"Missing or invalid authorization header", "Invalid JWT format",
     "Invalid JWT header encoding", "No key ID in JWT header", "Failed to fetch JWKS",
     "No matching key found", "Invalid signature", "Invalid JWT payload encoding",
     "Token expired", "Invalid audience", "Invalid issuer"}

\* C21: a request that ends with an error of the authentication pipeline gets a
\* 401 whose body, outside development, has the fixed message of the category
\* 'authentication' and not the message of the error, and no debug field; in
\* development, and only there, it has the message of the error and debug: true.
C21_Sanitized ==
    \A t \in Tasks :
        (pc[t] = "done" /\ log[t] \in PipelineErrors) =>
            /\ out[t].status = 401
            /\ out[t].error = "authentication"
            /\ IF env.ENVIRONMENT = "development"
               THEN out[t].message = log[t] /\ out[t].debug
               ELSE /\ out[t].message = "Authentication failed"
                    /\ out[t].message \notin PipelineErrors
                    /\ ~out[t].debug

\* in production a token with a bad signature was answered with the fixed message
C21_Witness ==
    \E t \in Tasks :
        /\ pc[t] = "done" /\ env.ENVIRONMENT = "production"
        /\ log[t] = "Invalid signature"
        /\ out[t].status = 401 /\ out[t].message = "Authentication failed"

-----------------------------------------------------------------------------
(* the origin validator *)

\* the origin the response of task t shows validateOrigin to have resolved: a
\* 403 of the origin check stands for null
Resolved(t) == IF out[t].status = 403 THEN Null ELSE out[t].cors.allowOrigin

\* the strings the configuration allows
Configured ==
    { IF env.AUTH0_AUDIENCE # Null THEN env.AUTH0_AUDIENCE
      ELSE "https://end-times.jacob-luszcz.workers.dev" }
    \cup (IF env.CUSTOM_DOMAIN # Null THEN {"https://" \o env.CUSTOM_DOMAIN} ELSE {})

\* origins of the shape https://<name>-end-times.<account>.workers.dev
PreviewExamples ==
    { "https://pr-7-end-times.jacob-luszcz.workers.dev",
      "https://staging-end-times.jacob-luszcz.workers.dev" }

\* origins a character away from that shape: another scheme, no name, a
\* further label, a further suffix, the bare production name
NearMisses ==
    { "http://pr-7-end-times.jacob-luszcz.workers.dev",
      "https://-end-times.jacob-luszcz.workers.dev",
      "https://pr-7-end-times.a.b.workers.dev",
      "https://pr-7-end-times.x.workers.dev.evil.com",
      "https://end-times.jacob-luszcz.workers.dev",
      "https://api.end-times.example" }

\* C22: in every configuration (none of which names https://evil.example.com
\* itself) a response to a request with an Origin shows http://localhost:8787
\* resolved to itself, https://evil.example.com resolved to null, an origin of
\* the preview shape resolved to itself, and an origin that is neither a
\* configured string nor of the preview shape resolved to null; an origin that is
\* a configured string and of the preview shape is matched as a string.
C22_Validator ==
    \A t \in Tasks :
        (pc[t] = "done" /\ req[t].origin # Null /\ (out[t].status = 403 \/ out[t].cors.base)) =>
            LET o == req[t].origin
            IN  /\ o = "http://localhost:8787" => Resolved(t) = o
                /\ o = "https://evil.example.com" => Resolved(t) = Null
                /\ o \in PreviewExamples => Resolved(t) = o
                /\ (o \in NearMisses /\ o \notin Configured) => Resolved(t) = Null
                /\ (o \in Configured /\ o \in PreviewExamples) => matchKind(o, env) = "exact"
                /\ (o \in PreviewExamples /\ o \notin Configured) => matchKind(o, env) = "pattern"

C22_Witness ==
    \E t \in Tasks :
        /\ pc[t] = "done" /\ out[t].status = 200
        /\ req[t].origin = "https://pr-7-end-times.jacob-luszcz.workers.dev"
        /\ env.CUSTOM_DOMAIN = Null
        /\ out[t].cors.allowOrigin = req[t].origin

\* C23 as stated: a request without an Origin header is not refused by the
\* origin check and its response carries no CORS header at all.
C23_Original ==
    \A t \in Tasks :
        (pc[t] = "done" /\ req[t].origin = Null) =>
            out[t].status # 403 /\ out[t].cors = NoCors

\* C23: a request without an Origin header resolves to no origin, is not refused
\* by the origin check, and its response carries neither
\* Access-Control-Allow-Origin nor Access-Control-Allow-Credentials; the
\* response the Worker builds still carries Access-Control-Allow-Methods,
\* -Allow-Headers and -Max-Age.
C23_NoOriginHeader ==
    \A t \in Tasks :
        (pc[t] = "done" /\ req[t].origin = Null) =>
            /\ validateOrigin(req[t].origin, env) = Null
            /\ out[t].status # 403
            /\ out[t].cors.allowOrigin = Null
            /\ out[t].cors.allowCredentials = Null
            /\ out[t].body # "runtime" => out[t].cors.base

C23_Witness ==
    \E t \in Tasks :
        /\ pc[t] = "done" /\ req[t].origin = Null /\ req[t].method = "GET"
        /\ req[t].path = ConfigPath
        /\ out[t].status = 200
        /\ out[t].cors = [base |-> TRUE, allowOrigin |-> Null, allowCredentials |-> Null]

\* C24: in every response Access-Control-Allow-Origin is there only when
\* validateOrigin allowed the Origin of the request, and is then that origin and
\* never a wildcard; Access-Control-Allow-Credentials is "true" exactly when
\* Access-Control-Allow-Origin is there and is absent otherwise.
C24_EchoValidated ==
    \A t \in Tasks :
        pc[t] = "done" =>
            /\ out[t].cors.allowOrigin # Null =>
                  /\ req[t].origin # Null
                  /\ out[t].cors.allowOrigin = req[t].origin
                  /\ out[t].cors.allowOrigin # "*"
                  /\ req[t].origin = "http://localhost:8787"
                        \/ req[t].origin \in Configured
                        \/ req[t].origin \in PreviewExamples
                        \/ req[t].origin = "http://127.0.0.1:8787"
            /\ out[t].cors.allowCredentials \in {Null, "true"}
            /\ out[t].cors.allowCredentials = "true" <=> out[t].cors.allowOrigin # Null

C24_Witness ==
    \E t \in Tasks :
        /\ pc[t] = "done" /\ req[t].path = SearchPath
        /\ req[t].origin = "http://localhost:8787"
        /\ out[t].status = 401
        /\ out[t].cors.allowOrigin = "http://localhost:8787"
        /\ out[t].cors.allowCredentials = "true"

-----------------------------------------------------------------------------
(* a key-set fetch that fails with nothing cached *)

\* the getJWKS call of task t found no entry and its fetch, or the reading of
\* the answer, failed
FetchFailedNoCache(t) == call[t].failed # Null /\ call[t].seen = NoEntry

\* C25: once the key-set fetch of a request has failed with no cached entry,
\* getJWKS has thrown and the request has no authenticated user; it ends with a
\* 401 authentication failure that records 'Failed to fetch JWKS', never with a
\* 500, an answer of the runtime or a call of the movie database.
C25_FetchFailure401 ==
    \A t \in Tasks :
        (req[t] # NoReq /\ FetchFailedNoCache(t)) =>
            /\ pc[t] \in {"jwks_throw", "done"}
            /\ user[t] = DecodeFail
            /\ pc[t] = "jwks_throw" => out[t] = NoOut
            /\ pc[t] = "done" =>
                  /\ out[t].status = 401
                  /\ out[t].error = "authentication"
                  /\ out[t].body = "error"
                  /\ log[t] = "Failed to fetch JWKS"
                  /\ out[t].cors = generateCorsHeaders(req[t].origin, env)

C25_Witness ==
    \E t \in Tasks :
        /\ pc[t] = "done" /\ req[t].path = SearchPath
        /\ call[t].failed = "network" /\ call[t].seen = NoEntry
        /\ out[t].status = 401 /\ out[t].message = "Authentication failed"

-----------------------------------------------------------------------------
(* the public configuration endpoint *)

\* C28: a GET of /api/config/auth0 that passes the origin and configuration
\* checks is answered in the step of its arrival with 200 and the domain, client
\* id and audience of the configuration, with or without an Authorization
\* header; the step calls neither the rate limiter (no record is read into a
\* decision, created or changed) nor any part of the token verification.
C28_PublicConfig ==
    [][\A t \in Tasks :
        (ReceiveStep(t) /\ req'[t].path = ConfigPath /\ PastEarlyChecks(req'[t])) =>
            /\ pc'[t] = "done"
            /\ out'[t].status = 200 /\ out'[t].body = "config"
            /\ out'[t].config = [domain |-> env.AUTH0_DOMAIN,
                                 clientId |-> env.AUTH0_CLIENT_ID,
                                 audience |-> env.AUTH0_AUDIENCE]
            /\ out'[t].config.domain # Null /\ out'[t].config.clientId # Null
            /\ out'[t].config.audience # Null
            /\ LimiterUntouched /\ NoTokenWork(t)]_vars

C28_Witness ==
    \E t \in Tasks :
        /\ pc[t] = "done" /\ req[t].method = "GET" /\ req[t].path = ConfigPath
        /\ req[t].auth = NoAuth
        /\ rateLimitStorage[rlKey(req[t].cf, req[t].xff)] # NoRecord
        /\ rateLimitStorage[rlKey(req[t].cf, req[t].xff)].count >= maxRequests
        /\ out[t].status = 200 /\ out[t].config.clientId = "spa-client-id"

-----------------------------------------------------------------------------
(* the movie database answers with an error *)

\* the statuses of the input that are not a success
FailingStatuses == { s \in UpstreamOutcomes : s # NoStatus /\ (s < 200 \/ s > 299) }

\* C29: when the movie database answers /api/search or /api/movie/{id} with a
\* status that is not a success, the response is 503 for a status of 500 or
\* above and 400 for any other; its body is the sanitized external_api error
\* (with the fixed message outside development), never the body of the movie
\* database, and the status is the mapped one, not the one received.
C29_UpstreamError ==
    [][\A t \in Tasks : \A s \in FailingStatuses :
        (pc[t] = "upstream" /\ pc'[t] = "done"
            /\ log'[t] = "TMDB API error: " \o ToString(s)) =>
            /\ req[t].path = SearchPath \/ IsMoviePath(req[t].path)
            /\ out'[t].status = (IF s >= 500 THEN 503 ELSE 400)
            /\ s \notin {400, 503} => out'[t].status # s
            /\ out'[t].body = "error" /\ out'[t].error = "external_api"
            /\ env.ENVIRONMENT # "development" =>
                  /\ out'[t].message = "External service temporarily unavailable"
                  /\ ~out'[t].debug]_vars

C29_Witness ==
    \E t \in Tasks :
        /\ pc[t] = "done" /\ IsMoviePath(req[t].path)
        /\ log[t] = "TMDB API error: 404"
        /\ out[t].status = 400 /\ out[t].error = "external_api"

-----------------------------------------------------------------------------
(* Requests in flight together *)

\* the requests of the two tasks: protected routes, same origin, one client
ConcRequests ==
    [method : {"GET"}, origin : {Null}, path : {SearchPath, UserPath},
     query : {TRUE}, cf : {"10.0.0.1"}, xff : {Null},
     auth : {NoAuth, [scheme |-> "Bearer", token |-> GoodToken]}]

\* the client's window is new, or two admissions short of the limit
InitConc ==
    /\ now = 0
    /\ \E rec \in {NoRecord, [count |-> maxRequests - 2, windowStart |-> 0]} :
        rateLimitStorage = [k \in RLKeys |->
                              IF k = "auth_10.0.0.1" THEN rec ELSE NoRecord]
    /\ rlCalls = [k \in RLKeys |-> 0]
    /\ rlLast = NoCall
    /\ InitJwksVars
    /\ InitReqVars
    /\ env = ProdEnv
    /\ InitFront

\* every handler runs from one suspension to the next without interruption;
\* the tasks interleave at the suspensions
NextConc ==
    \E t \in Tasks :
        \/ \E r \in ConcRequests, sweep \in BOOLEAN : Receive(t, r, sweep)
        \/ \E outcome \in {"error", "notok", "ok"} : FetchSettles(t, outcome)
        \/ \E body \in JwksBodies : JsonSettles(t, body)
        \/ ResumeAfterJWKS(t)
        \/ ImportSettles(t)
        \/ VerifySettles(t)
        \/ \E outcome \in UpstreamOutcomes : UpstreamSettles(t, outcome)
        \/ FinishRequest(t)

SpecConc == InitConc /\ [][NextConc]_vars

\* the request of task t reaches checkRateLimit in the step of its arrival
LimiterStep(t) ==
    /\ ReceiveStep(t)
    /\ isProtected(req'[t].path)
    /\ PastEarlyChecks(req'[t])

\* C26: with requests of one client in flight together, the client's record
\* changes only in the step in which a request arrives, and there by exactly one
\* admission: a request that is not answered 429 opens a window with count 1
\* or raises the count of the running window by one, a request answered 429
\* leaves the record as it is at the limit; no step of a request that is
\* suspended or resumed changes a record; and no record ever counts more than
\* maxRequests.
C26_AtomicLimiter ==
    /\ [](\A k \in RLKeys : rateLimitStorage[k].count <= maxRequests)
    /\ [][\A k \in RLKeys :
            LET before == rateLimitStorage[k]
                after  == rateLimitStorage'[k]
                open   == before # NoRecord /\ now - before.windowStart <= windowMs
            IN  IF \E t \in Tasks : LimiterStep(t) /\ rlKey(req'[t].cf, req'[t].xff) = k
                THEN \A t \in Tasks : LimiterStep(t) =>
                        IF out'[t].status = 429
                        THEN open /\ before.count = maxRequests /\ after = before
                        ELSE IF open
                        THEN /\ before.count < maxRequests
                             /\ after = [count |-> before.count + 1,
                                         windowStart |-> before.windowStart]
                        ELSE after = [count |-> 1, windowStart |-> now]
                ELSE after = before]_vars

C26_Witness ==
    \E t, u \in Tasks :
        /\ t # u
        /\ pc[t] = "fetch" /\ pc[u] = "done" /\ out[u].status = 429
        /\ rateLimitStorage["auth_10.0.0.1"] = [count |-> maxRequests, windowStart |-> 0]

-----------------------------------------------------------------------------
(* a key-set fetch that does not answer *)

\* C27, in the form a finite run can contradict: a request that waits for the
\* answer of the key-set fetch has not waited longer than the timeout (5 s, the
\* figure the specification suggests); when the timeout is over the fetch has
\* been cut off and getJWKS has returned the stale entry or thrown.
C27_FetchCutOff ==
    \A t \in Tasks :
        (req[t] # NoReq /\ pc[t] = "fetch") => now - call[t].startAt <= 5000

-----------------------------------------------------------------------------
(* The time calculation of the page *)

InitCalc == InitRL

NextCalc ==
    \E h \in StartHours, m \in StartMinutes, buffer \in VALID_BUFFER_VALUES,
       runtime \in Runtimes :
        calculateAndDisplayTimes(h, m, buffer, runtime)

SpecCalc == InitCalc /\ [][NextCalc]_vars

\* the minute of the day a displayed time "hh:mm AM" or "hh:mm PM" stands for
ClockOf(text) ==
    LET h12 == 10 * DigitValue(text[1]) + DigitValue(text[2])
        m   == 10 * DigitValue(text[4]) + DigitValue(text[5])
    IN  ((h12 % 12) + (IF text[7] = "P" THEN 12 ELSE 0)) * 60 + m

\* the buffer of the select, in minutes
BufferOf(buffer) ==
    CASE buffer = <<"0">> -> 0
      [] buffer = <<"5">> -> 5
      [] buffer = <<"1", "0">> -> 10
      [] buffer = <<"1", "5">> -> 15
      [] buffer = <<"2", "0">> -> 20
      [] buffer = <<"2", "5">> -> 25
      [] buffer = <<"3", "0">> -> 30

\* C30: for a start time HH:MM, a buffer b and a runtime r >= 1, the estimated
\* start is the instant b minutes after HH:MM of today and the estimated end
\* the instant b + r minutes after it; the times displayed are the clock times
\* (HH:MM + b) and (HH:MM + b + r) taken modulo 24 hours; 23:00 with b = 30 and
\* r = 120 displays 11:30 PM and 01:30 AM.
C30_EndTime ==
    (calc # NoCalc /\ calc.runtime >= 1) =>
        LET start == calc.hours * 60 + calc.minutes
            b     == BufferOf(calc.buffer)
            r     == calc.runtime
        IN  /\ calc.error = Null
            /\ calc.estStartDate = (start + b) * 60000
            /\ calc.estEndDate = (start + b + r) * 60000
            /\ ClockOf(calc.estStartTime) = (start + b) % 1440
            /\ ClockOf(calc.estEndTime) = (start + b + r) % 1440
            /\ (calc.hours = 23 /\ calc.minutes = 0 /\ b = 30 /\ r = 120) =>
                  /\ calc.estStartTime = <<"1", "1", ":", "3", "0", " ", "P", "M">>
                  /\ calc.estEndTime = <<"0", "1", ":", "3", "0", " ", "A", "M">>

C30_Witness ==
    /\ calc.startTime = <<"2", "3", ":", "0", "0">>
    /\ calc.buffer = <<"3", "0">> /\ calc.runtime = 120
    /\ calc.estEndDate = 1530 * 60000
    /\ calc.estEndTime = <<"0", "1", ":", "3", "0", " ", "A", "M">>

-----------------------------------------------------------------------------
(* The sweep of the rate limiter (SpecRL) *)

\* the age of the window of a record at the moment of the call
WindowAge(record) == now - record.windowStart

\* C33: a call of checkRateLimit that sweeps removes, among the records of the
\* other clients, exactly those whose window is older than 120 s and leaves the
\* rest as they are; it removes no record whose window is still running (age at
\* most 60 s); a call that does not sweep leaves every record of the other
\* clients as it is.  The record of the caller is the fresh or counted-up one.
C33_SweepExact ==
    [][\A k \in RLKeys : RLCallStep(k) =>
        /\ rateLimitStorage'[k] # NoRecord
        /\ \A j \in RLKeys \ {k} :
            LET before == rateLimitStorage[j]
            IN  IF rlLast'.swept /\ before # NoRecord /\ WindowAge(before) > 120000
                THEN rateLimitStorage'[j] = NoRecord
                ELSE rateLimitStorage'[j] = before
        /\ \A j \in RLKeys :
            (rateLimitStorage[j] # NoRecord /\ WindowAge(rateLimitStorage[j]) <= 60000)
                => rateLimitStorage'[j] # NoRecord]_vars

\* a sweeping call of one client has removed the record of the other, which had
\* been called for, and kept or renewed its own
C33_Witness ==
    \E k, j \in RLKeys :
        /\ k # j
        /\ rlLast.key = k /\ rlLast.swept
        /\ rlCalls[j] > 0 /\ rateLimitStorage[j] = NoRecord
        /\ rateLimitStorage[k] # NoRecord

\* C36: every stored record has a count from 1 to 100, and a call that is
\* denied finds a record and leaves its count and window start as they are.
C36_CountInRange ==
    /\ [](\A k \in RLKeys :
            rateLimitStorage[k] # NoRecord =>
                rateLimitStorage[k].count >= 1 /\ rateLimitStorage[k].count <= 100)
    /\ [][\A k \in RLKeys : (RLCallStep(k) /\ ~rlLast'.allowed) =>
            /\ rateLimitStorage[k] # NoRecord
            /\ rateLimitStorage'[k] = rateLimitStorage[k]]_vars

C36_Witness ==
    \E k \in RLKeys :
        /\ rlLast.key = k /\ ~rlLast.allowed /\ rlLast.flip
        /\ rlLast.before = [count |-> 100, windowStart |-> 0]
        /\ rateLimitStorage[k] = [count |-> 100, windowStart |-> 0]
        /\ now = 60000

\* C37: the result of a call and the record of the calling client after it are
\* those of the same call made without the sweep and of the same call made with
\* it.
C37_SweepNeutral ==
    [][\A k \in RLKeys : RLCallStep(k) =>
        \A sweep \in BOOLEAN :
            LET res == checkRateLimit(rateLimitStorage, k, now, sweep)
            IN  /\ rlLast'.allowed = res.allowed
                /\ rateLimitStorage'[k] = res.storage[k]]_vars

\* a call that swept away the record of another client counted its own record
\* up inside the running window
C37_Witness ==
    \E k, j \in RLKeys :
        /\ k # j
        /\ rlLast.key = k /\ rlLast.swept /\ rlLast.allowed
        /\ rlLast.before # NoRecord
        /\ rateLimitStorage[k] = [rlLast.before EXCEPT !.count = @ + 1]
        /\ rlCalls[j] > 0 /\ rateLimitStorage[j] = NoRecord

-----------------------------------------------------------------------------
(* A fetch that fails while the cache holds an entry (SpecJWKS) *)

\* the step in which the fetch of task t, or the reading of its answer, fails
FailStep(t) == call[t].failed = Null /\ call'[t].failed # Null

\* C38: when the fetch of a call fails while the cache holds an entry for the
\* domain, whether the call saw it at its start or another call stored it in
\* the meantime, the call returns a key set and does not throw.
C38_FailureUsesCache ==
    [][\A t \in Tasks :
        (FailStep(t) /\ jwksCache[TheCacheKey] # NoEntry) =>
            /\ pc'[t] = "jwks_ret"
            /\ jwks'[t] # NotJson]_vars

-----------------------------------------------------------------------------
(* The AuthService of the page *)

InitAuth ==
    /\ InitBackend
    /\ calc = NoCalc
    /\ \E callback \in BOOLEAN : auth = NewAuthService(callback)
    /\ attempt = [c \in Callers |-> "none"]
    /\ caller = [c \in Callers |-> NoCaller]
    /\ page = NewPage(NoUrl, FALSE)

NextAuth ==
    \/ \E c \in Callers, op \in Ops : CallAuth(c, op)
    \/ \E outcome \in {"ok", "notok", "error"} : ConfigFetchSettles(outcome)
    \/ \E ok \in BOOLEAN : ConfigJsonSettles(ok)
    \/ \E o \in Callers, ok \in BOOLEAN : CreateSettles(o, ok)
    \/ \E o \in Callers, ok \in BOOLEAN : CallbackSettles(o, ok)
    \/ \E c \in Callers : ReturnAuth(c)

SpecAuth == InitAuth /\ [][NextAuth]_vars

\* the initializations in flight
InFlight == { o \in Callers : attempt[o] # "none" }

C35_RetryAfterFailure ==
    [][ /\ \A o \in InFlight :
              (o \notin InFlight' /\ auth'.lastOutcome = "rejected") =>
                  /\ auth'.initializationPromise = Null
                  /\ \A c \in Callers :
                        (caller[c].at = "waiting" /\ caller[c].on = o) =>
                            (caller'[c].at = "done" /\ caller'[c].result = "error")
        /\ \A c \in Callers :
              ( /\ InFlight = {}
                /\ auth.lastOutcome = "rejected"
                /\ caller[c].at = "idle"
                /\ caller'[c].at # "idle"
                /\ caller'[c].op = "initialize" ) =>
                  attempt'[c] # "none" ]_vars

\* C39: the service is marked as initialized only when no redirect callback is
\* being handled and none has failed, and no method has used the client while
\* the callback was being handled.
C39_InitializedWhenComplete ==
    /\ auth.isInitialized =>
          /\ ~CallbackRunning
          /\ ~(InFlight = {} /\ auth.lastOutcome = "rejected")
    /\ \A c \in Callers : ~caller[c].usedInCallback

-----------------------------------------------------------------------------
(* searchMovie on its own *)

InitSearch == InitRL

NextSearch ==
    \E results \in ResultLists, currentYear \in CurrentYears :
        SearchMovie(results, currentYear)

SpecSearch == InitSearch /\ [][NextSearch]_vars

\* the results of the last search that have a release date
DatedResults ==
    { page.search.results[i] : i \in { j \in DOMAIN page.search.results :
                                         page.search.results[j].release_date # <<>> } }

\* how far the release year of a movie is from the current year of the search
YearDistance(movie) == Abs(page.search.currentYear - releaseYear(movie))

\* C31: from a result list that is not empty searchMovie returns a movie: one
\* of the results with a release date, none of which has a release year closer
\* to the current year, or as close and later.
C31_ClosestMovie ==
    page.search.results # <<>> =>
        /\ page.search.returned # NoMovie
        /\ page.search.returned \in DatedResults
        /\ \A m \in DatedResults :
              /\ YearDistance(page.search.returned) <= YearDistance(m)
              /\ YearDistance(page.search.returned) = YearDistance(m) =>
                    releaseYear(page.search.returned) >= releaseYear(m)

-----------------------------------------------------------------------------
(* The page *)

InitPage ==
    /\ InitBackend
    /\ calc = NoCalc
    /\ auth = NewAuthService(FALSE)
    /\ attempt = [c \in Callers |-> "none"]
    /\ caller = [c \in Callers |-> NoCaller]
    /\ \E url \in Urls : page = NewPage(url, FALSE)

NextPage ==
    \/ LoadFromUrlParams
    \/ ShowLoginState
    \/ \E title \in TypedTitles : TypeTitle(title)
    \/ \E time \in TypedTimes : PickTime(time)
    \/ \E r \in Runs : HandleCalculate(r)
    \/ \E r \in Runs, isAuthenticated \in BOOLEAN : AuthenticatedSettles(r, isAuthenticated)
    \/ \E r \in Runs, outcome \in {"redirect", "error", "results"},
          results \in PageResults, currentYear \in {2025} :
          SearchSettles(r, outcome, results, currentYear)
    \/ \E r \in Runs, outcome \in {"redirect", "error", "details"},
          runtime \in PageRuntimes : DetailsSettles(r, outcome, runtime)
    \/ Reload

SpecPage == InitPage /\ [][NextPage]_vars

\* the run settles what it awaits
Settle(r) ==
    \/ \E isAuthenticated \in BOOLEAN : AuthenticatedSettles(r, isAuthenticated)
    \/ \E outcome \in {"redirect", "error", "results"}, results \in PageResults :
          SearchSettles(r, outcome, results, 2025)
    \/ \E outcome \in {"redirect", "error", "details"}, runtime \in PageRuntimes :
          DetailsSettles(r, outcome, runtime)

\* every request and every call of the AuthService that a run awaits settles
SpecPageLive == SpecPage /\ \A r \in Runs : WF_vars(Settle(r))

\* a time of the form H:MM or HH:MM with the hour in 0..23 and the minute in
\* 00..59
IsTimeOfDay(s) ==
    \E h \in 0..23, m \in 0..59 :
        \/ s = TwoDigit(h) \o <<":">> \o TwoDigit(m)
        \/ h < 10 /\ s = <<Digits[h + 1]>> \o <<":">> \o TwoDigit(m)

\* one of 0, 5, 10, 15, 20, 25, 30
IsBufferValue(s) == \E n \in 0..6 : s = toString(5 * n)

\* the step in which the page reads its URL, and the one in which a run
\* starts its search
LoadStep == ~page.loaded /\ page'.loaded
SearchStep == \E r \in Runs : page.run[r].pc = "auth" /\ page'.run[r].pc = "search"

\* C32: on load the time of the URL is put into the form only if it is a time
\* of day, the buffer only if it is one of the seven values, and a run of
\* handleCalculate starts only if movie is set and auto is 'true'; a search
\* leaves movie, time and buffer and no auto in the URL, and the load of a URL
\* written by a search starts no run.
C32_UrlParameters ==
    /\ [][ /\ LoadStep =>
                /\ page'.form.startTime # page.form.startTime =>
                      (IsTimeOfDay(page.url.time) /\ page'.form.startTime = page.url.time)
                /\ page'.form.bufferTime # page.form.bufferTime =>
                      (IsBufferValue(page.url.buffer)
                         /\ page'.form.bufferTime = page.url.buffer)
                /\ (\E r \in Runs : page'.run[r].pc # "idle") =>
                      (page.url.movie # <<>> /\ page.url.auto = "true")
                /\ page.searched => \A r \in Runs : page'.run[r].pc = "idle"
           /\ SearchStep => page'.searched ]_vars
    /\ [](page.searched =>
            /\ {"movie", "time", "buffer"} \subseteq page.url.has
            /\ "auto" \notin page.url.has
            /\ page.url.movie # <<>> /\ page.url.time # <<>> /\ page.url.buffer # <<>>
            /\ page.url.auto # "true")

\* the page has been loaded again on the URL of a search, whose time with a
\* one-digit hour is in the form, and nothing runs
C32_Witness ==
    /\ page.searched /\ page.loaded
    /\ page.ui = NewUi
    /\ page.form.startTime = <<"9", ":", "1", "5">>
    /\ page.form.movieTitle = page.url.movie
    /\ \A r \in Runs : page.run[r].pc = "idle"

\* the run is between showLoading and its end
InLoading(r) == page.run[r].pc \in {"search", "details"}

\* C40: a run of handleCalculate that starts its search disables the button
\* and shows the loading indicator; when it ends the indicator is hidden, the
\* button is enabled and exactly one of the results and the error is shown;
\* and every such run ends.
C40_LoadingEnds ==
    /\ [][ \A r \in Runs :
              /\ (~InLoading(r) /\ InLoading(r)') =>
                    (page'.ui.loading /\ page'.ui.disabled)
              /\ (InLoading(r) /\ page'.run[r].pc = "idle" /\ page'.loaded) =>
                    /\ ~page'.ui.loading
                    /\ ~page'.ui.disabled
                    /\ page'.ui.results # page'.ui.error ]_vars
    /\ \A r \in Runs : InLoading(r) ~> ~InLoading(r)

\* a run that was redirected to the login has ended with the error shown
C40_Witness ==
    /\ page.searched /\ page.loaded
    /\ \A r \in Runs : page.run[r].pc = "idle"
    /\ page.ui.message = "TypeError"
    /\ page.ui.error /\ ~page.ui.results /\ ~page.ui.loading /\ ~page.ui.disabled

====
